---------------------------- MODULE Spec2Model ----------------------------
(***************************************************************************)
(* Feature-request manager: the Typeform webhook route, the tracking       *)
(* pipeline (parse free text, sanitize PII, classify, project to a sheet   *)
(* row) and the two Jira ticket-generation workflows.                      *)
(*                                                                         *)
(* Representation.  A JavaScript string is a sequence of tokens.  A token  *)
(* is a single character ("a", "7", "@", " ") or a literal the program     *)
(* emits or compares as a whole ("[EMAIL_REDACTED]", "Other", "General").  *)
(* A whole literal belongs to no character class of any pattern.  The      *)
(* empty string is <<>>.                                                   *)
(***************************************************************************)
EXTENDS Integers, Sequences, FiniteSets, TLC

VARIABLES
    now,        \* the system clock, in half seconds
    pc,         \* per run: the step about to execute
    variant,    \* per run: "tracking", "ticketRaw" or "webhook"
    rawText,    \* per run: the raw Typeform text a text workflow was started with
    payload,    \* per run: the request body the webhook route received
    response,   \* per run: what the agent last asked to generate did
    extracted,  \* per run: the extracted form fields
    sanitized,  \* per run: the output of the sanitize step
    prompt,     \* per run: the values interpolated into the prompt last sent
    record,     \* per run: the output of the classify step
    row,        \* per run: the output of the projection step
    ticket,     \* per run: the Jira story a ticket workflow returned
    status,     \* per run: the workflow run's result status
    failedAt,   \* per run: the step that threw
    http,       \* per run: the webhook route's response
    calls       \* per run: agent.generate invocations, per agent

vars == << now, pc, variant, rawText, payload, response, extracted, sanitized,
           prompt, record, row, ticket, status, failedAt, http, calls >>

(***************************************************************************)
(* Characters and string primitives                                        *)
(***************************************************************************)
LowerLetters == <<"a","b","c","d","e","f","g","h","i","j","k","l","m",
                  "n","o","p","q","r","s","t","u","v","w","x","y","z">>

UpperLetters == <<"A","B","C","D","E","F","G","H","I","J","K","L","M",
                  "N","O","P","Q","R","S","T","U","V","W","X","Y","Z">>

DigitChars == <<"0","1","2","3","4","5","6","7","8","9">>

HexChars == <<"0","1","2","3","4","5","6","7","8","9","a","b","c","d","e","f">>

Range(f) == { f[i] : i \in DOMAIN f }

LowerSet == Range(LowerLetters)

UpperSet == Range(UpperLetters)

DigitSet == Range(DigitChars)

HexSet == Range(HexChars)

\* Characters outside U+0020..U+007E are written as tokens: "\t", "\n",
\* "\f", "\r", and "U+xxxx" for the others (so is the grave accent,
\* "U+0060", which a TLA+ string cannot hold); this is each one's code point.
OtherCodes ==
    [c \in {"\t", "\n", "\f", "\r", "U+000B", "U+00A0", "U+1680", "U+2000",
            "U+2001", "U+2002", "U+2003", "U+2004", "U+2005", "U+2006", "U+2007",
            "U+2008", "U+2009", "U+200A", "U+2028", "U+2029", "U+202F", "U+205F",
            "U+3000", "U+FEFF"} |->
        CASE c = "\t" -> 9
          [] c = "\n" -> 10
          [] c = "U+000B" -> 11
          [] c = "\f" -> 12
          [] c = "\r" -> 13
          [] c = "U+00A0" -> 160
          [] c = "U+1680" -> 5760
          [] c = "U+2000" -> 8192
          [] c = "U+2001" -> 8193
          [] c = "U+2002" -> 8194
          [] c = "U+2003" -> 8195
          [] c = "U+2004" -> 8196
          [] c = "U+2005" -> 8197
          [] c = "U+2006" -> 8198
          [] c = "U+2007" -> 8199
          [] c = "U+2008" -> 8200
          [] c = "U+2009" -> 8201
          [] c = "U+200A" -> 8202
          [] c = "U+2028" -> 8232
          [] c = "U+2029" -> 8233
          [] c = "U+202F" -> 8239
          [] c = "U+205F" -> 8287
          [] c = "U+3000" -> 12288
          [] c = "U+FEFF" -> 65279]

\* \s of a JavaScript pattern, and what String.prototype.trim strips:
\* WhiteSpace and LineTerminator of ECMAScript
WhiteSet == {" "} \cup DOMAIN OtherCodes

IsAlpha(c) == c \in LowerSet \cup UpperSet

IsDigit(c) == c \in DigitSet

\* \w of a JavaScript pattern
IsWord(c) == IsAlpha(c) \/ IsDigit(c) \/ c = "_"

SetMin(S) == CHOOSE k \in S : \A j \in S : k <= j

SetMax(S) == CHOOSE k \in S : \A j \in S : k >= j

\* String.prototype.toLowerCase on one character
LowerChar(c) ==
    IF c \in UpperSet
    THEN LowerLetters[CHOOSE i \in 1..26 : UpperLetters[i] = c]
    ELSE c

ToLowerCase(s) == [i \in 1..Len(s) |-> LowerChar(s[i])]

\* String.prototype.trim
Trim(s) ==
    LET keep == { i \in 1..Len(s) : s[i] \notin WhiteSet }
    IN  IF keep = {} THEN <<>> ELSE SubSeq(s, SetMin(keep), SetMax(keep))

\* String.prototype.substring(0, n)
Substring0(s, n) == SubSeq(s, 1, IF Len(s) < n THEN Len(s) ELSE n)

\* String.prototype.split(sep) for a one-character separator
RECURSIVE SplitOn(_, _)
SplitOn(s, sep) ==
    LET at == { i \in 1..Len(s) : s[i] = sep }
    IN  IF at = {} THEN << s >>
        ELSE << SubSeq(s, 1, SetMin(at) - 1) >>
             \o SplitOn(SubSeq(s, SetMin(at) + 1, Len(s)), sep)

\* Array.prototype.join(sep) over a list of strings
RECURSIVE JoinWith(_, _)
JoinWith(list, sep) ==
    IF list = <<>> THEN <<>>
    ELSE IF Len(list) = 1 THEN list[1]
    ELSE list[1] \o sep \o JoinWith(Tail(list), sep)

(***************************************************************************)
(* Pattern matching.  A bounded pattern is the list of the shapes it can   *)
(* match, in the order the backtracking matcher tries them (a greedy       *)
(* optional part is tried present before absent, \d{1,3} longest first).   *)
(* A shape is a sequence of character-class names.                         *)
(***************************************************************************)
InClass(c, cls) ==
    CASE cls = "d"   -> IsDigit(c)
      [] cls = "sep" -> c \in {"-", "."} \cup WhiteSet      \* [-.\s]
      [] cls = "hs"  -> c \in {"-"} \cup WhiteSet           \* [-\s]
      [] OTHER       -> c = cls                             \* a literal

\* the shapes of XY, X's choice varying slowest
Cat(A, B) ==
    [k \in 1..(Len(A) * Len(B)) |->
        A[((k - 1) \div Len(B)) + 1] \o B[((k - 1) % Len(B)) + 1]]

\* the shapes of (X)? : X first, then nothing
Opt(A) == A \o << <<>> >>

ShapeAt(s, i, shape) ==
    /\ i + Len(shape) - 1 <= Len(s)
    /\ \A j \in 1..Len(shape) : InClass(s[i + j - 1], shape[j])

WordAt(s, i) == i >= 1 /\ i <= Len(s) /\ IsWord(s[i])

\* \b between positions i-1 and i
BoundaryAt(s, i) == WordAt(s, i - 1) # WordAt(s, i)

\* Length of the match the engine finds starting at i (0: none); with
\* `bounded`, the pattern is \b ... \b
MatchLen(s, i, shapes, bounded) ==
    LET ok == { k \in 1..Len(shapes) :
                  /\ ShapeAt(s, i, shapes[k])
                  /\ bounded => /\ BoundaryAt(s, i)
                                /\ BoundaryAt(s, i + Len(shapes[k])) }
    IN  IF ok = {} THEN 0 ELSE Len(shapes[SetMin(ok)])

\* String.prototype.replace(/pattern/g, tag)
RECURSIVE ReplaceFrom(_, _, _, _, _)
ReplaceFrom(s, i, shapes, bounded, tag) ==
    IF i > Len(s) THEN <<>>
    ELSE LET n == MatchLen(s, i, shapes, bounded)
         IN  IF n > 0
             THEN << tag >> \o ReplaceFrom(s, i + n, shapes, bounded, tag)
             ELSE << s[i] >> \o ReplaceFrom(s, i + 1, shapes, bounded, tag)

ReplaceAll(s, shapes, bounded, tag) == ReplaceFrom(s, 1, shapes, bounded, tag)

\* RegExp.prototype.test
Matches(s, shapes, bounded) ==
    \E i \in 1..Len(s) : MatchLen(s, i, shapes, bounded) > 0

D1 == << <<"d">> >>

D2 == << <<"d","d">> >>

D3 == << <<"d","d","d">> >>

D4 == << <<"d","d","d","d">> >>

D1to3 == << <<"d","d","d">>, <<"d","d">>, <<"d">> >>

OptSep == Opt(<< <<"sep">> >>)

OptHs == Opt(<< <<"hs">> >>)

\* /(\+?\d{1,3}[-.\s]?)?(\(?\d{3}\)?[-.\s]?)?\d{3}[-.\s]?\d{4}/
PhonePattern ==
    Cat(Opt(Cat(Opt(<< <<"+">> >>), Cat(D1to3, OptSep))),
        Cat(Opt(Cat(Opt(<< <<"(">> >>), Cat(D3, Cat(Opt(<< <<")">> >>), OptSep)))),
            Cat(D3, Cat(OptSep, D4))))

\* /\b\d{4}[-\s]?\d{4}[-\s]?\d{4}[-\s]?\d{4}\b/
CardPattern ==
    Cat(D4, Cat(OptHs, Cat(D4, Cat(OptHs, Cat(D4, Cat(OptHs, D4))))))

\* /\b\d{3}[-\s]?\d{2}[-\s]?\d{4}\b/
SsnPattern == Cat(D3, Cat(OptHs, Cat(D2, Cat(OptHs, D4))))

\* [a-zA-Z0-9._%+-]
IsEmailLocal(c) == IsAlpha(c) \/ IsDigit(c) \/ c \in {".", "_", "%", "+", "-"}

\* [a-zA-Z0-9.-]
IsEmailDomain(c) == IsAlpha(c) \/ IsDigit(c) \/ c \in {".", "-"}

\* the last index of the run of characters satisfying the class from i on
\* (i - 1 when s[i] is not in the class)
RunEnd(s, i, cls) ==
    LET InCls(c) == CASE cls = "local" -> IsEmailLocal(c)
                      [] cls = "domain" -> IsEmailDomain(c)
                      [] OTHER -> IsAlpha(c)
        stop == { j \in i..Len(s) : ~InCls(s[j]) }
    IN  IF stop = {} THEN Len(s) ELSE SetMin(stop) - 1

\* /[a-zA-Z0-9._%+-]+@[a-zA-Z0-9.-]+\.[a-zA-Z]{2,}/ tried at i: the index of
\* the match's last character, 0 when there is no match.  The local part
\* is the whole run up to the "@"; the domain part is the longest one
\* followed by "." and two letters; the last part takes every letter.
EmailEnd(s, i) ==
    LET at == RunEnd(s, i, "local") + 1
        domEnd == RunEnd(s, at + 1, "domain")
        dots == { k \in (at + 2)..domEnd :
                    /\ s[k] = "."
                    /\ k + 2 <= Len(s)
                    /\ IsAlpha(s[k + 1])
                    /\ IsAlpha(s[k + 2]) }
    IN  IF at = i \/ at > Len(s) \/ s[at] # "@" \/ dots = {} THEN 0
        ELSE RunEnd(s, SetMax(dots) + 1, "alpha")

RECURSIVE ReplaceEmailFrom(_, _)
ReplaceEmailFrom(s, i) ==
    IF i > Len(s) THEN <<>>
    ELSE LET e == EmailEnd(s, i)
         IN  IF e > 0
             THEN << "[EMAIL_REDACTED]" >> \o ReplaceEmailFrom(s, e + 1)
             ELSE << s[i] >> \o ReplaceEmailFrom(s, i + 1)

ReplaceEmails(s) == ReplaceEmailFrom(s, 1)

HasEmail(s) == \E i \in 1..Len(s) : EmailEnd(s, i) > 0

HasPhone(s) == Matches(s, PhonePattern, FALSE)

HasCard(s) == Matches(s, CardPattern, TRUE)

HasSsn(s) == Matches(s, SsnPattern, TRUE)

\* the redaction invariant of a sanitized text
HasPII(s) == HasEmail(s) \/ HasPhone(s) \/ HasCard(s) \/ HasSsn(s)

(***************************************************************************)
(* PII sanitizer (tools/pii-sanitizer.ts) and the helpers the tracking     *)
(* workflow defines for itself                                             *)
(***************************************************************************)
\* sanitizeText of the PII sanitizer tool: four substitutions in order
sanitizeText(text) ==
    LET noEmail == ReplaceEmails(text)
        noPhone == ReplaceAll(noEmail, PhonePattern, FALSE, "[PHONE_REDACTED]")
        noCard  == ReplaceAll(noPhone, CardPattern, TRUE, "[PAYMENT_INFO_REDACTED]")
    IN  ReplaceAll(noCard, SsnPattern, TRUE, "[SSN_REDACTED]")

\* sanitizeText of the tracking workflow: the email substitution only
workflowSanitizeText(text) == ReplaceEmails(text)

\* Buffer.toString("hex")
BytesToHex(bytes) ==
    [i \in 1..(2 * Len(bytes)) |->
        IF i % 2 = 1 THEN HexChars[(bytes[(i + 1) \div 2] \div 16) + 1]
        ELSE HexChars[(bytes[i \div 2] % 16) + 1]]

(***************************************************************************)
(* crypto.createHash("md5").update(s).digest("hex")                        *)
(***************************************************************************)
\* the characters U+0020..U+007E in code order
Ascii ==
    << " ", "!", "\"", "#", "$", "%", "&", "'", "(", ")", "*", "+", ",", "-", ".", "/",
       "0", "1", "2", "3", "4", "5", "6", "7", "8", "9", ":", ";", "<", "=", ">", "?",
       "@", "A", "B", "C", "D", "E", "F", "G", "H", "I", "J", "K", "L", "M", "N", "O",
       "P", "Q", "R", "S", "T", "U", "V", "W", "X", "Y", "Z", "[", "\\", "]", "^", "_",
       "U+0060", "a", "b", "c", "d", "e", "f", "g", "h", "i", "j", "k", "l", "m", "n", "o",
       "p", "q", "r", "s", "t", "u", "v", "w", "x", "y", "z", "{", "|", "}", "~" >>

\* the UTF-8 bytes of a code point below U+10000
Utf8Of(cp) ==
    IF cp < 128 THEN << cp >>
    ELSE IF cp < 2048 THEN << 192 + (cp \div 64), 128 + (cp % 64) >>
    ELSE << 224 + (cp \div 4096), 128 + ((cp \div 64) % 64), 128 + (cp % 64) >>

\* the code point of a character
CharCode(c) ==
    IF c \in DOMAIN OtherCodes THEN OtherCodes[c]
    ELSE 31 + (CHOOSE i \in 1..Len(Ascii) : Ascii[i] = c)

\* hash.update(string): the string's UTF-8 bytes
RECURSIVE Utf8(_)
Utf8(s) == IF s = <<>> THEN <<>> ELSE Utf8Of(CharCode(Head(s))) \o Utf8(Tail(s))

\* 32-bit words are pairs << high 16 bits, low 16 bits >>
\* bitwise and of two 4-bit numbers
And4(a, b) ==
    ((a % 2) * (b % 2)) + (2 * (((a \div 2) % 2) * ((b \div 2) % 2)))
    + (4 * (((a \div 4) % 2) * ((b \div 4) % 2))) + (8 * ((a \div 8) * (b \div 8)))

\* bitwise and of two 16-bit numbers
And16(a, b) ==
    And4(a % 16, b % 16) + (16 * And4((a \div 16) % 16, (b \div 16) % 16))
    + (256 * And4((a \div 256) % 16, (b \div 256) % 16))
    + (4096 * And4(a \div 4096, b \div 4096))

WAnd(x, y) == << And16(x[1], y[1]), And16(x[2], y[2]) >>

WOr(x, y) == << x[1] + y[1] - And16(x[1], y[1]), x[2] + y[2] - And16(x[2], y[2]) >>

WXor(x, y) ==
    << x[1] + y[1] - (2 * And16(x[1], y[1])), x[2] + y[2] - (2 * And16(x[2], y[2])) >>

WNot(x) == << 65535 - x[1], 65535 - x[2] >>

\* addition modulo 2^32
WAdd(x, y) ==
    << (x[1] + y[1] + ((x[2] + y[2]) \div 65536)) % 65536, (x[2] + y[2]) % 65536 >>

\* rotation to the left by s bits, 0 < s < 32
RotL(x, s) ==
    LET y == IF s >= 16 THEN << x[2], x[1] >> ELSE x
        k == s % 16
    IN  IF k = 0 THEN y
        ELSE << ((y[1] * (2 ^ k)) % 65536) + (y[2] \div (2 ^ (16 - k))),
                ((y[2] * (2 ^ k)) % 65536) + (y[1] \div (2 ^ (16 - k))) >>

\* MD5's per-round shift amounts
Md5Shift ==
    << 7, 12, 17, 22, 7, 12, 17, 22, 7, 12, 17, 22, 7, 12, 17, 22,
       5, 9, 14, 20, 5, 9, 14, 20, 5, 9, 14, 20, 5, 9, 14, 20,
       4, 11, 16, 23, 4, 11, 16, 23, 4, 11, 16, 23, 4, 11, 16, 23,
       6, 10, 15, 21, 6, 10, 15, 21, 6, 10, 15, 21, 6, 10, 15, 21 >>

\* MD5's constants floor(2^32 * abs(sin(i + 1)))
Md5Sine ==
    << <<55146, 42104>>, <<59591, 46934>>, <<9248, 28891>>, <<49597, 52974>>,
       <<62844, 4015>>, <<18311, 50730>>, <<43056, 17939>>, <<64838, 38145>>,
       <<27008, 39128>>, <<35652, 63407>>, <<65535, 23473>>, <<35164, 55230>>,
       <<27536, 4386>>, <<64920, 29075>>, <<42617, 17294>>, <<18868, 2081>>,
       <<63006, 9570>>, <<49216, 45888>>, <<9822, 23121>>, <<59830, 51114>>,
       <<54831, 4189>>, <<580, 5203>>, <<55457, 59009>>, <<59347, 64456>>,
       <<8673, 52710>>, <<49975, 2006>>, <<62677, 3463>>, <<17754, 5357>>,
       <<43491, 59653>>, <<64751, 41976>>, <<26479, 729>>, <<36138, 19594>>,
       <<65530, 14658>>, <<34673, 63105>>, <<28061, 24866>>, <<64997, 14348>>,
       <<42174, 59972>>, <<19422, 53161>>, <<63163, 19296>>, <<48831, 48240>>,
       <<10395, 32454>>, <<60065, 10234>>, <<54511, 12421>>, <<1160, 7429>>,
       <<55764, 53305>>, <<59099, 39397>>, <<8098, 31992>>, <<50348, 22117>>,
       <<62505, 8772>>, <<17194, 65431>>, <<43924, 9127>>, <<64659, 41017>>,
       <<25947, 22979>>, <<36620, 52370>>, <<65519, 62589>>, <<34180, 24017>>,
       <<28584, 32335>>, <<65068, 59104>>, <<41729, 17172>>, <<19976, 4513>>,
       <<63315, 32386>>, <<48442, 62005>>, <<10967, 53947>>, <<60294, 54161>> >>

\* the message, a 1 bit, zeros up to 56 modulo 64, and the bit length as 64
\* bits, least significant byte first
Md5Pad(bytes) ==
    LET n == Len(bytes)
        zeros == (119 - (n % 64)) % 64
        bits == 8 * n
    IN  bytes \o << 128 >> \o [i \in 1..zeros |-> 0]
        \o [i \in 1..8 |-> IF i <= 4 THEN (bits \div (256 ^ (i - 1))) % 256 ELSE 0]

\* word j (0..15) of the block that starts after byte `at`, little-endian
Md5Word(bytes, at, j) ==
    << bytes[at + (4 * j) + 3] + (256 * bytes[at + (4 * j) + 4]),
       bytes[at + (4 * j) + 1] + (256 * bytes[at + (4 * j) + 2]) >>

\* rounds i..63 on the state v = << A, B, C, D >> over the block's words m
RECURSIVE Md5Rounds(_, _, _)
Md5Rounds(v, m, i) ==
    IF i = 64 THEN v
    ELSE LET a == v[1]
             b == v[2]
             c == v[3]
             d == v[4]
             f == IF i < 16 THEN WOr(WAnd(b, c), WAnd(WNot(b), d))
                  ELSE IF i < 32 THEN WOr(WAnd(d, b), WAnd(WNot(d), c))
                  ELSE IF i < 48 THEN WXor(WXor(b, c), d)
                  ELSE WXor(c, WOr(b, WNot(d)))
             g == IF i < 16 THEN i
                  ELSE IF i < 32 THEN ((5 * i) + 1) % 16
                  ELSE IF i < 48 THEN ((3 * i) + 5) % 16
                  ELSE (7 * i) % 16
             sum == WAdd(WAdd(f, a), WAdd(Md5Sine[i + 1], m[g + 1]))
             next == << d, WAdd(b, RotL(sum, Md5Shift[i + 1])), b, c >>
         \* next always has four words; testing its length computes it before
         \* the following round is entered
         IN  IF Len(next) = 4 THEN Md5Rounds(next, m, i + 1) ELSE v

\* the state after the blocks from byte `at` on
RECURSIVE Md5Blocks(_, _, _)
Md5Blocks(h, bytes, at) ==
    IF at >= Len(bytes) THEN h
    ELSE LET m == [j \in 1..16 |-> Md5Word(bytes, at, j - 1)]
             v == Md5Rounds(h, m, 0)
         IN  Md5Blocks([k \in 1..4 |-> WAdd(h[k], v[k])], bytes, at + 64)

\* a word's four bytes, least significant first
WBytes(x) == << x[2] % 256, x[2] \div 256, x[1] % 256, x[1] \div 256 >>

\* the MD5 digest as 32 lower-case hex digits
Md5Digest(s) ==
    LET h == Md5Blocks(<< <<26437, 8961>>, <<61389, 43913>>, <<39098, 56574>>,
                          <<4146, 21622>> >>, Md5Pad(Utf8(s)), 0)
    IN  BytesToHex(WBytes(h[1]) \o WBytes(h[2]) \o WBytes(h[3]) \o WBytes(h[4]))

\* the contact addresses of the model's submissions
EmailJane == <<"J","a","n","e","@","X",".","c","o","m"," ">>

EmailJaneLower == <<"j","a","n","e","@","x",".","c","o","m">>

EmailBob == <<"b","o","b","@","x",".","c","o","m">>

\* their digests, computed once
Md5Known == [s \in {EmailJane, EmailJaneLower, EmailBob} |-> Md5Digest(s)]

\* crypto.createHash("md5").update(s).digest("hex")
Md5Hex(s) == IF s \in DOMAIN Md5Known THEN Md5Known[s] ELSE Md5Digest(s)

\* the digest of the address as given
hashEmailAsGiven(email) == Substring0(Md5Hex(email), 8)

hashEmail(email) == Substring0(Md5Hex(Trim(ToLowerCase(email))), 8)

Pad2(n) == << DigitChars[((n \div 10) % 10) + 1], DigitChars[(n % 10) + 1] >>

Pad3(n) == << DigitChars[((n \div 100) % 10) + 1] >> \o Pad2(n % 100)

\* The system clock counts half seconds from 2026-10-29T09:59:59.000Z
BaseDate == <<"2","0","2","6","-","1","0","-","2","9">>

BaseSecond == (9 * 3600) + (59 * 60) + 59

\* new Date().toISOString() when the clock reads t
toISOString(t) ==
    LET sod == BaseSecond + (t \div 2)
    IN  BaseDate \o <<"T">> \o Pad2(sod \div 3600) \o <<":">>
        \o Pad2((sod \div 60) % 60) \o <<":">> \o Pad2(sod % 60)
        \o <<".">> \o Pad3((t % 2) * 500) \o <<"Z">>

IsDateDigit(c) == c \notin {"-", ":", "T", "Z", "."}

\* the request id made from the ISO string as it is, punctuation kept
generateRequestIdNoStrip(t, bytes) ==
    <<"r","e","q","_">> \o Substring0(toISOString(t), 14) \o <<"_">>
    \o Substring0(BytesToHex(bytes), 4)

\* generateRequestId with the clock reading t and the two random bytes
generateRequestId(t, bytes) ==
    LET timestamp == Substring0(SelectSeq(toISOString(t), IsDateDigit), 14)
        randomChars == Substring0(BytesToHex(bytes), 4)
    IN  <<"r","e","q","_">> \o timestamp \o <<"_">> \o randomChars

UserPrefix == <<"u","s","e","r","_">>

(***************************************************************************)
(* JavaScript values.  Every value the program handles is a record         *)
(* [t, s, l]: its type, its characters (strings; the digits of a number)   *)
(* and its elements (arrays).                                              *)
(***************************************************************************)
JUndef == [t |-> "undefined", s |-> <<>>, l |-> <<>>]

JNull == [t |-> "null", s |-> <<>>, l |-> <<>>]

JStr(x) == [t |-> "string", s |-> x, l |-> <<>>]

JNum(digits) == [t |-> "number", s |-> digits, l |-> <<>>]

JArr(elems) == [t |-> "array", s |-> <<>>, l |-> elems]

\* ToBoolean
Truthy(v) ==
    CASE v.t \in {"undefined", "null"} -> FALSE
      [] v.t = "string" -> v.s # <<>>
      [] v.t = "number" -> v.s # <<"0">>
      [] OTHER -> TRUE

\* a || b
OrElse(a, b) == IF Truthy(a) THEN a ELSE b

\* String(v) / template interpolation of a value
RECURSIVE ToText(_)
ToText(v) ==
    CASE v.t = "undefined" -> <<"undefined">>
      [] v.t = "null" -> <<"null">>
      [] v.t = "array" ->
            JoinWith([i \in 1..Len(v.l) |->
                        IF v.l[i].t \in {"undefined", "null"} THEN <<>>
                        ELSE ToText(v.l[i])], <<",">>)
      [] OTHER -> v.s

\* the keys the three capabilities' responses are read at
AllKeys ==
    {"feature_name", "description", "domain", "niche", "keywords",
     "frequency", "user_id", "timestamp", "request_id",
     "summary", "acceptanceCriteria", "noteForQA", "storyPoints", "priority",
     "featureDescription", "usageFrequency", "serviceTypes", "userInterests",
     "contactEmail"}

\* an object literal: the keys of f, every other key absent
Obj(f) == [k \in AllKeys |-> IF k \in DOMAIN f THEN f[k] ELSE JUndef]

NoFields == [k \in AllKeys |-> JUndef]

(***************************************************************************)
(* A capability's response text is a sequence of segments: a complete      *)
(* JSON object, a scalar JSON literal, one of the punctuation characters   *)
(* [ ] , { }, white space, or prose (text holding no bracket or brace      *)
(* that is not JSON).  "{" directly followed by "}" is the empty object.   *)
(***************************************************************************)
SObj(o) == [k |-> "object", o |-> o, v |-> JUndef]

SLit(v) == [k |-> "literal", o |-> NoFields, v |-> v]

SMark(k) == [k |-> k, o |-> NoFields, v |-> JUndef]

SProse == SMark("prose")

SSpace == SMark("space")

\* String.prototype.trim on a response
TrimSegs(segs) ==
    LET keep == { i \in 1..Len(segs) : segs[i].k # "space" }
    IN  IF keep = {} THEN <<>> ELSE SubSeq(segs, SetMin(keep), SetMax(keep))

\* responseText.match(/\{[\s\S]*\}/): from the first "{" to the last "}",
\* <<>> when there is no "{" with a "}" after it
BraceSpan(segs) ==
    LET opens  == { i \in 1..Len(segs) : segs[i].k \in {"object", "{"} }
        closes == { i \in 1..Len(segs) : segs[i].k \in {"object", "}"} }
    IN  IF opens = {} \/ closes = {} THEN <<>>
        ELSE IF SetMin(opens) < SetMax(closes)
                \/ (SetMin(opens) = SetMax(closes)
                    /\ segs[SetMin(opens)].k = "object")
        THEN SubSeq(segs, SetMin(opens), SetMax(closes))
        ELSE <<>>

\* The index of the last segment of the JSON value that starts at i, 0 when
\* none does
RECURSIVE ValueEnd(_, _)
RECURSIVE ItemsEnd(_, _)
ValueEnd(b, i) ==
    IF i > Len(b) THEN 0
    ELSE IF b[i].k \in {"object", "literal"} THEN i
    ELSE IF b[i].k = "[" THEN
         IF i + 1 <= Len(b) /\ b[i + 1].k = "]" THEN i + 1
         ELSE ItemsEnd(b, i + 1)
    ELSE IF b[i].k = "{" /\ i + 1 <= Len(b) /\ b[i + 1].k = "}" THEN i + 1
    ELSE 0

ItemsEnd(b, i) ==
    LET e == ValueEnd(b, i)
    IN  IF e = 0 \/ e + 1 > Len(b) THEN 0
        ELSE IF b[e + 1].k = "]" THEN e + 1
        ELSE IF b[e + 1].k = "," THEN ItemsEnd(b, e + 2)
        ELSE 0

IsSignificant(seg) == seg.k # "space"

\* JSON.parse: ok is FALSE when it throws; kind is the value's type; o its
\* own properties when it is an object
JSONparse(segs) ==
    LET b == SelectSeq(segs, IsSignificant)
    IN  IF b = <<>> \/ ValueEnd(b, 1) # Len(b)
        THEN [ok |-> FALSE, kind |-> "none", o |-> NoFields]
        ELSE IF b[1].k \in {"object", "{"}
        THEN [ok |-> TRUE, kind |-> "object", o |-> b[1].o]
        ELSE IF b[1].k = "[" THEN [ok |-> TRUE, kind |-> "array", o |-> NoFields]
        ELSE [ok |-> TRUE,
              kind |-> IF b[1].v.t = "null" THEN "null" ELSE "scalar",
              o |-> NoFields]

\* The parse every step applies to response.text: trim, then the brace
\* span if the pattern matches, else the whole text
parseAgentResponse(text) ==
    LET responseText == TrimSegs(text)
        jsonMatch == BraceSpan(responseText)
    IN  IF jsonMatch # <<>> THEN JSONparse(jsonMatch)
        ELSE JSONparse(responseText)

\* parsedResponse.key (the parsed value is not null)
Prop(parsed, key) == IF parsed.kind = "object" THEN parsed.o[key] ELSE JUndef

(***************************************************************************)
(* Typeform webhook route: extraction from a structured payload            *)
(***************************************************************************)
\* An answer: field.ref ("" when absent), field.id, and the optional text,
\* email, choice.label and choices.labels
Answer(ref, id, text, email, choice, choices) ==
    [ref |-> ref, id |-> id, text |-> text, email |-> email,
     choice |-> choice, choices |-> choices]

FIELD_MAPPING ==
    [feature_description |->
        <<"feature_description", "feature_request", "description", "what_feature">>,
     usage_frequency |-> <<"usage_frequency", "frequency", "how_often">>,
     service_types |-> <<"service_types", "services", "what_services">>,
     user_interests |-> <<"interests", "areas", "user_interests">>,
     contact_email |-> <<"email", "contact_email", "contact">>]

\* a resolution that prefers the email to the text
getAnswerValueEmailFirst(answer) ==
    IF Truthy(answer.email) THEN answer.email.s
    ELSE IF Truthy(answer.text) THEN answer.text.s
    ELSE IF Truthy(answer.choice) THEN answer.choice.s
    ELSE IF Truthy(answer.choices)
         THEN JoinWith([i \in 1..Len(answer.choices.l) |-> answer.choices.l[i].s],
                       <<",", " ">>)
    ELSE <<>>

getAnswerValue(answer) ==
    IF Truthy(answer.text) THEN answer.text.s
    ELSE IF Truthy(answer.email) THEN answer.email.s
    ELSE IF Truthy(answer.choice) THEN answer.choice.s
    ELSE IF Truthy(answer.choices)
         THEN JoinWith([i \in 1..Len(answer.choices.l) |-> answer.choices.l[i].s],
                       <<",", " ">>)
    ELSE <<>>

\* the value of the first answer, in answer order, that matches any reference
findAnswerByAnswerOrder(answers, fieldRefs) ==
    LET hit == { i \in 1..Len(answers) :
                   \E k \in 1..Len(fieldRefs) :
                      answers[i].ref = fieldRefs[k] \/ answers[i].id = fieldRefs[k] }
    IN  IF hit # {} THEN JStr(getAnswerValue(answers[SetMin(hit)])) ELSE JUndef

\* a lookup that passes over a matched answer with no value and goes on
\* to the next accepted reference
findAnswerSkipEmpty(answers, fieldRefs) ==
    LET first(k) == SetMin({ i \in 1..Len(answers) :
                               answers[i].ref = fieldRefs[k] \/ answers[i].id = fieldRefs[k] })
        matched == { k \in 1..Len(fieldRefs) :
                       \E i \in 1..Len(answers) :
                          answers[i].ref = fieldRefs[k] \/ answers[i].id = fieldRefs[k] }
        valued == { k \in matched : getAnswerValue(answers[first(k)]) # <<>> }
    IN  IF valued = {} THEN JUndef
        ELSE JStr(getAnswerValue(answers[first(SetMin(valued))]))

\* the value of the last answer matching the first matched reference
findAnswerLastMatch(answers, fieldRefs) ==
    LET matched == { k \in 1..Len(fieldRefs) :
                       \E i \in 1..Len(answers) :
                          answers[i].ref = fieldRefs[k] \/ answers[i].id = fieldRefs[k] }
    IN  IF matched = {} THEN JUndef
        ELSE LET ref == fieldRefs[SetMin(matched)]
             IN  JStr(getAnswerValue(answers[SetMax({ i \in 1..Len(answers) :
                        answers[i].ref = ref \/ answers[i].id = ref })]))

\* the value of the first answer matching the first matched reference, or
\* undefined
RECURSIVE findAnswer(_, _)
findAnswer(answers, fieldRefs) ==
    IF fieldRefs = <<>> THEN JUndef
    ELSE LET ref == Head(fieldRefs)
             hit == { i \in 1..Len(answers) :
                        answers[i].ref = ref \/ answers[i].id = ref }
         IN  IF hit # {} THEN JStr(getAnswerValue(answers[SetMin(hit)]))
             ELSE findAnswer(answers, Tail(fieldRefs))

parseTypeformPayload(answers) ==
    [featureDescription |->
        OrElse(findAnswer(answers, FIELD_MAPPING.feature_description), JStr(<<>>)),
     usageFrequency |-> findAnswer(answers, FIELD_MAPPING.usage_frequency),
     serviceTypes |-> findAnswer(answers, FIELD_MAPPING.service_types),
     userInterests |-> findAnswer(answers, FIELD_MAPPING.user_interests),
     contactEmail |-> findAnswer(answers, FIELD_MAPPING.contact_email)]

(***************************************************************************)
(* Tracking workflow: the four steps as functions                          *)
(***************************************************************************)
\* convertTypeformResponseToJSON, after a successful parse
convertFields(parsed) ==
    [featureDescription |-> OrElse(Prop(parsed, "featureDescription"), JStr(<<>>)),
     usageFrequency |-> OrElse(Prop(parsed, "usageFrequency"), JUndef),
     serviceTypes |-> OrElse(Prop(parsed, "serviceTypes"), JUndef),
     userInterests |-> OrElse(Prop(parsed, "userInterests"), JUndef),
     contactEmail |-> OrElse(Prop(parsed, "contactEmail"), JUndef)]

\* `.substring`, `.replace` or `.toLowerCase` of a value that has none
NotAString(v) == Truthy(v) /\ v.t # "string"

\* sanitizePII: t1 and t2 are the clock's two readings, bytes4 and bytes2
\* what crypto.randomBytes returns
sanitizePII(f, t1, t2, bytes4, bytes2) ==
    [sanitizedDescription |->
        JStr(workflowSanitizeText(OrElse(f.featureDescription, JStr(<<>>)).s)),
     sanitizedServiceTypes |->
        JStr(workflowSanitizeText(OrElse(f.serviceTypes, JStr(<<"General">>)).s)),
     sanitizedUserInterests |->
        JStr(workflowSanitizeText(OrElse(f.userInterests, JStr(<<>>)).s)),
     usageFrequency |-> OrElse(f.usageFrequency, JStr(<<"Not specified">>)),
     userId |->
        IF Truthy(f.contactEmail)
        THEN JStr(UserPrefix \o hashEmail(f.contactEmail.s))
        ELSE JStr(UserPrefix \o BytesToHex(bytes4)),
     timestamp |-> JStr(toISOString(t1)),
     requestId |-> JStr(generateRequestId(t2, bytes2))]

\* piiSanitizerTool.execute: the same fields, through the tool's sanitizeText
piiSanitizerTool(context, t1, t2, bytes4, bytes2) ==
    [sanitizedDescription |->
        JStr(sanitizeText(OrElse(context.featureDescription, JStr(<<>>)).s)),
     sanitizedServiceTypes |->
        JStr(sanitizeText(OrElse(context.serviceTypes, JStr(<<"General">>)).s)),
     sanitizedUserInterests |->
        JStr(sanitizeText(OrElse(context.userInterests, JStr(<<>>)).s)),
     usageFrequency |-> OrElse(context.usageFrequency, JStr(<<"Not specified">>)),
     userId |->
        IF Truthy(context.contactEmail)
        THEN JStr(UserPrefix \o hashEmail(context.contactEmail.s))
        ELSE JStr(UserPrefix \o BytesToHex(bytes4)),
     timestamp |-> JStr(toISOString(t1)),
     requestId |-> JStr(generateRequestId(t2, bytes2))]

\* the values interpolated into the classification prompt
trackingPrompt(san) ==
    << ToText(san.sanitizedDescription), ToText(san.usageFrequency),
       ToText(san.sanitizedServiceTypes), ToText(san.sanitizedUserInterests),
       ToText(san.userId), ToText(san.timestamp), ToText(san.requestId) >>

\* a split that drops the segments left empty by the trim
splitTrimNonEmpty(text) ==
    LET parts == SplitOn(text, ",")
        kept == SelectSeq([i \in 1..Len(parts) |-> Trim(parts[i])],
                          LAMBDA part : part # <<>>)
    IN  [i \in 1..Len(kept) |-> JStr(kept[i])]

\* sanitizedServiceTypes.split(",").map(s => s.trim())
splitTrim(text) ==
    LET parts == SplitOn(text, ",")
    IN  [i \in 1..Len(parts) |-> JStr(Trim(parts[i]))]

\* the object the catch block assigns to parsedResponse
fallbackResponse(san) ==
    Obj([feature_name |-> JStr(<<"Feature Review Needed">>),
         description |-> san.sanitizedDescription,
         domain |-> JStr(<<"Other">>),
         niche |-> OrElse(JArr(splitTrim(san.sanitizedServiceTypes.s)),
                          JArr(<< JStr(<<"General">>) >>)),
         keywords |-> JArr(<< JStr(<<"Review">>), JStr(<<"Unprocessed">>) >>),
         frequency |-> san.usageFrequency,
         user_id |-> san.userId,
         timestamp |-> san.timestamp,
         request_id |-> san.requestId])

\* a domain that is "Other" whatever the response says
resultDomainOther(parsed) == JStr(<<"Other">>)

resultDomain(parsed) == OrElse(Prop(parsed, "domain"), JStr(<<"Other">>))

\* the request id the response echoes, when it echoes one
resultRequestIdEchoed(parsed, san) ==
    OrElse(Prop(parsed, "request_id"), san.requestId)

resultRequestId(parsed, san) == san.requestId

\* "Ensure all required fields are present"
classifyResult(parsed, san) ==
    [feature_name |->
        OrElse(Prop(parsed, "feature_name"), JStr(<<"Feature Review Needed">>)),
     description |-> OrElse(Prop(parsed, "description"), san.sanitizedDescription),
     domain |-> resultDomain(parsed),
     niche |-> IF Prop(parsed, "niche").t = "array" THEN Prop(parsed, "niche")
               ELSE JArr(<< JStr(<<"General">>) >>),
     keywords |-> IF Prop(parsed, "keywords").t = "array"
                  THEN Prop(parsed, "keywords") ELSE JArr(<<>>),
     frequency |-> san.usageFrequency,
     user_id |-> san.userId,
     timestamp |-> san.timestamp,
     request_id |-> resultRequestId(parsed, san)]

\* the parse alone, with no fallback object
classifyParsedNoFallback(text, san) == parseAgentResponse(text)

\* parsedResponse after the try/catch of the classify step
classifyParsed(text, san) ==
    LET parsed == parseAgentResponse(text)
    IN  IF parsed.ok THEN parsed
        ELSE [ok |-> TRUE, kind |-> "object", o |-> fallbackResponse(san)]

\* arr.join("; ")
arrayToCSVSemicolon(arr) ==
    JoinWith([i \in 1..Len(arr.l) |->
                IF arr.l[i].t \in {"undefined", "null"} THEN <<>>
                ELSE ToText(arr.l[i])], <<";", " ">>)

\* arr.join(", ")
arrayToCSV(arr) ==
    JoinWith([i \in 1..Len(arr.l) |->
                IF arr.l[i].t \in {"undefined", "null"} THEN <<>>
                ELSE ToText(arr.l[i])], <<",", " ">>)

\* a projection that marks the row of a fallback record as not successful
prepareGoogleSheetsRowFlagged(rec) ==
    [request_id |-> rec.request_id,
     timestamp |-> rec.timestamp,
     feature_name |-> rec.feature_name,
     description |-> rec.description,
     domain |-> rec.domain,
     niche |-> JStr(arrayToCSV(rec.niche)),
     keywords |-> JStr(arrayToCSV(rec.keywords)),
     frequency |-> rec.frequency,
     user_id |-> rec.user_id,
     success |-> rec.feature_name # JStr(<<"Feature Review Needed">>),
     message |-> <<"Feature request processed successfully (">>
                 \o ToText(rec.request_id) \o <<")">>]

\* a projection that writes the feature name in the description column
prepareGoogleSheetsRowSwapped(rec) ==
    [request_id |-> rec.request_id,
     timestamp |-> rec.timestamp,
     feature_name |-> rec.feature_name,
     description |-> rec.feature_name,
     domain |-> rec.domain,
     niche |-> JStr(arrayToCSV(rec.niche)),
     keywords |-> JStr(arrayToCSV(rec.keywords)),
     frequency |-> rec.frequency,
     user_id |-> rec.user_id,
     success |-> TRUE,
     message |-> <<"Feature request processed successfully (">>
                 \o ToText(rec.request_id) \o <<")">>]

prepareGoogleSheetsRow(rec) ==
    [request_id |-> rec.request_id,
     timestamp |-> rec.timestamp,
     feature_name |-> rec.feature_name,
     description |-> rec.description,
     domain |-> rec.domain,
     niche |-> JStr(arrayToCSV(rec.niche)),
     keywords |-> JStr(arrayToCSV(rec.keywords)),
     frequency |-> rec.frequency,
     user_id |-> rec.user_id,
     success |-> TRUE,
     message |-> <<"Feature request processed successfully (">>
                 \o ToText(rec.request_id) \o <<")">>]

(***************************************************************************)
(* Ticket workflows                                                        *)
(***************************************************************************)
\* featureRequestOutputSchema's domain enum
DomainEnum ==
    { <<"Booking Site">>, <<"Payments">>, <<"Marketing">>, <<"Client Management">>,
      <<"Analytics">>, <<"Other">> }

PriorityEnum == { <<"1">>, <<"2">>, <<"3">>, <<"4">>, <<"5">> }

\* the strict workflow sanitizes with the tool's sanitizeText
strictPrompt(f) ==
    << sanitizeText(OrElse(f.featureDescription, JStr(<<>>)).s),
       sanitizeText(OrElse(f.usageFrequency, JStr(<<"Not specified">>)).s),
       sanitizeText(OrElse(f.serviceTypes, JStr(<<"Not specified">>)).s),
       sanitizeText(OrElse(f.userInterests, JStr(<<"Not specified">>)).s),
       IF Truthy(f.contactEmail) THEN <<"[EMAIL_REDACTED]">>
       ELSE <<"Not provided">> >>

\* a schema that asks for an object and nothing of its keys
jiraStoryOutputSchemaLoose(parsed) == parsed.kind = "object"

\* jiraStoryOutputSchema.parse succeeds
jiraStoryOutputSchema(parsed) ==
    /\ parsed.kind = "object"
    /\ \A k \in {"summary", "description", "acceptanceCriteria", "noteForQA"} :
          parsed.o[k].t = "string"
    /\ parsed.o["storyPoints"].t = "number"
    /\ parsed.o["priority"].t = "string"
    /\ parsed.o["priority"].s \in PriorityEnum

\* the validated object: the schema's six keys
strictTicket(parsed) ==
    [summary |-> parsed.o["summary"],
     description |-> parsed.o["description"],
     acceptanceCriteria |-> parsed.o["acceptanceCriteria"],
     noteForQA |-> parsed.o["noteForQA"],
     storyPoints |-> parsed.o["storyPoints"],
     priority |-> parsed.o["priority"]]

\* "Validate and extract required fields" of the raw-text workflow
\* a permissive ticket that keeps whatever priority the response gives
rawTicketKeepPriority(parsed, text) ==
    [summary |-> OrElse(Prop(parsed, "summary"),
                        JStr(<<"[Feature] - ">> \o Substring0(text, 80))),
     description |-> OrElse(Prop(parsed, "description"), JStr(<<>>)),
     acceptanceCriteria |-> OrElse(Prop(parsed, "acceptanceCriteria"), JStr(<<>>)),
     noteForQA |-> OrElse(Prop(parsed, "noteForQA"), JStr(<<>>)),
     storyPoints |-> IF Prop(parsed, "storyPoints").t = "number"
                     THEN Prop(parsed, "storyPoints") ELSE JNum(<<"5">>),
     priority |-> OrElse(Prop(parsed, "priority"), JStr(<<"3">>))]

rawTicket(parsed, text) ==
    [summary |-> OrElse(Prop(parsed, "summary"),
                        JStr(<<"[Feature] - ">> \o Substring0(text, 80))),
     description |-> OrElse(Prop(parsed, "description"), JStr(<<>>)),
     acceptanceCriteria |-> OrElse(Prop(parsed, "acceptanceCriteria"), JStr(<<>>)),
     noteForQA |-> OrElse(Prop(parsed, "noteForQA"), JStr(<<>>)),
     storyPoints |-> IF Prop(parsed, "storyPoints").t = "number"
                     THEN Prop(parsed, "storyPoints") ELSE JNum(<<"5">>),
     priority |-> IF /\ Prop(parsed, "priority").t = "string"
                     /\ Prop(parsed, "priority").s \in PriorityEnum
                  THEN Prop(parsed, "priority") ELSE JStr(<<"3">>)]

(***************************************************************************)
(* State machine                                                           *)
(***************************************************************************)
Runs == {"r1", "r2"}

MaxClock == 2

NoExtracted ==
    [featureDescription |-> JUndef, usageFrequency |-> JUndef,
     serviceTypes |-> JUndef, userInterests |-> JUndef, contactEmail |-> JUndef]

NoSanitized ==
    [sanitizedDescription |-> JUndef, sanitizedServiceTypes |-> JUndef,
     sanitizedUserInterests |-> JUndef, usageFrequency |-> JUndef,
     userId |-> JUndef, timestamp |-> JUndef, requestId |-> JUndef]

NoRecord ==
    [feature_name |-> JUndef, description |-> JUndef, domain |-> JUndef,
     niche |-> JUndef, keywords |-> JUndef, frequency |-> JUndef,
     user_id |-> JUndef, timestamp |-> JUndef, request_id |-> JUndef]

NoRow ==
    [request_id |-> JUndef, timestamp |-> JUndef, feature_name |-> JUndef,
     description |-> JUndef, domain |-> JUndef, niche |-> JUndef,
     keywords |-> JUndef, frequency |-> JUndef, user_id |-> JUndef,
     success |-> FALSE, message |-> <<>>]

NoTicket ==
    [summary |-> JUndef, description |-> JUndef, acceptanceCriteria |-> JUndef,
     noteForQA |-> JUndef, storyPoints |-> JUndef, priority |-> JUndef]

\* c.json({ success, error | message, ... }, code): the response's status
\* code and the success, error and message members of its body
Reply(code, success, error, message) ==
    [code |-> code, success |-> success, error |-> error, message |-> message]

NoHttp == Reply(0, FALSE, "", "")

NoCalls == [parser |-> 0, classifier |-> 0, ticket |-> 0]

Body(kind, eventType, valid, answers) ==
    [kind |-> kind, event_type |-> eventType, valid |-> valid, answers |-> answers]

\* no request
NoPayload == Body("none", "", FALSE, <<>>)

NoResponse == [agent |-> "none", kind |-> "none", text |-> <<>>]

\* the calls of agent.generate a step that asks twice makes
generateCallsRetried(present) == IF present THEN 2 ELSE 0

\* the calls of agent.generate a step makes: none when mastra.getAgent
\* returned nothing, otherwise the one await agent.generate(...)
generateCalls(present) == IF present THEN 1 ELSE 0

\* agent `a` was asked to generate and did `out`
From(a, out) == [agent |-> a, kind |-> out.kind, text |-> out.text]

\* mastra.getAgent returned nothing for agent `a`
Absent(a) == [agent |-> a, kind |-> "noagent", text |-> <<>>]

\* agent.generate of agent `a` has been called and has not settled
Pending(a) == [agent |-> a, kind |-> "pending", text |-> <<>>]

\* The state after construction: the runs of `active` are about to start
InitRuns(active) ==
    /\ now = 0
    /\ pc = [r \in Runs |-> IF r \in active THEN "idle" ELSE "off"]
    /\ variant = [r \in Runs |-> "none"]
    /\ rawText = [r \in Runs |-> <<>>]
    /\ payload = [r \in Runs |-> NoPayload]
    /\ response = [r \in Runs |-> NoResponse]
    /\ extracted = [r \in Runs |-> NoExtracted]
    /\ sanitized = [r \in Runs |-> NoSanitized]
    /\ prompt = [r \in Runs |-> <<>>]
    /\ record = [r \in Runs |-> NoRecord]
    /\ row = [r \in Runs |-> NoRow]
    /\ ticket = [r \in Runs |-> NoTicket]
    /\ status = [r \in Runs |-> "none"]
    /\ failedAt = [r \in Runs |-> "none"]
    /\ http = [r \in Runs |-> NoHttp]
    /\ calls = [r \in Runs |-> NoCalls]

\* a step of run r throws: the run's result is "failed"
Throw(r, step) ==
    /\ pc' = [pc EXCEPT ![r] = IF variant[r] = "webhook" THEN "respond" ELSE "failed"]
    /\ status' = [status EXCEPT ![r] = "failed"]
    /\ failedAt' = [failedAt EXCEPT ![r] = step]

\* run.start({ inputData: { text } }) of a text workflow
StartText(r, v, text) ==
    /\ pc[r] = "idle"
    /\ variant' = [variant EXCEPT ![r] = v]
    /\ rawText' = [rawText EXCEPT ![r] = text]
    /\ pc' = [pc EXCEPT ![r] = IF v = "tracking" THEN "extract" ELSE "analyzeRaw"]
    /\ UNCHANGED << now, payload, response, extracted, sanitized, prompt, record,
                    row, ticket, status, failedAt, http, calls >>

\* Step 0 of the tracking workflow, convertTypeformResponseToJSON, up to
\* its await: the parser agent is looked up (present: it exists) and
\* agent.generate is called with the submission's text, rawText[r].
ConvertTypeformCall(r, present) ==
    /\ pc[r] = "extract"
    /\ calls' = [calls EXCEPT ![r].parser = @ + generateCalls(present)]
    /\ IF present
       THEN /\ response' = [response EXCEPT ![r] = Pending("parser")]
            /\ pc' = [pc EXCEPT ![r] = "extractWait"]
            /\ UNCHANGED << status, failedAt >>
       ELSE /\ response' = [response EXCEPT ![r] = Absent("parser")]
            /\ Throw(r, "extract")
    /\ UNCHANGED << now, variant, rawText, payload, extracted, sanitized, prompt,
                    record, row, ticket, http >>

\* The rest of step 0, after the await.  `out` is how the call settled:
\* generate threw, or a response.
ConvertTypeform(r, out) ==
    /\ pc[r] = "extractWait"
    /\ response' = [response EXCEPT ![r] = From("parser", out)]
    /\ LET parsed == parseAgentResponse(out.text)
           fields == convertFields(parsed)
       IN  IF \/ out.kind # "text"
              \/ ~parsed.ok
              \/ parsed.kind = "null"
              \/ NotAString(fields.featureDescription)
           THEN Throw(r, "extract") /\ UNCHANGED extracted
           ELSE /\ extracted' = [extracted EXCEPT ![r] = fields]
                /\ pc' = [pc EXCEPT ![r] = "sanitize"]
                /\ UNCHANGED << status, failedAt >>
    /\ UNCHANGED << now, variant, rawText, payload, sanitized, prompt, record,
                    row, ticket, http, calls >>

\* Step 1, sanitizePII.  The clock is read twice (timestamp, request id);
\* d1 and d2 are how far it has advanced at each reading.
SanitizePII(r, d1, d2, bytes4, bytes2) ==
    /\ pc[r] = "sanitize"
    /\ now + d1 + d2 <= MaxClock
    /\ now' = now + d1 + d2
    /\ LET f == extracted[r]
       IN  IF \/ NotAString(f.contactEmail)
              \/ NotAString(f.serviceTypes)
              \/ NotAString(f.userInterests)
           THEN Throw(r, "sanitize") /\ UNCHANGED sanitized
           ELSE /\ sanitized' = [sanitized EXCEPT ![r] =
                        sanitizePII(f, now + d1, now + d1 + d2, bytes4, bytes2)]
                /\ pc' = [pc EXCEPT ![r] = "classify"]
                /\ UNCHANGED << status, failedAt >>
    /\ UNCHANGED << variant, rawText, payload, response, extracted, prompt,
                    record, row, ticket, http, calls >>

\* Step 2, analyzeFeatureRequest of the tracking workflow, up to its await:
\* the agent is looked up, the prompt built and agent.generate called.
AnalyzeFeatureRequestCall(r, present) ==
    /\ pc[r] = "classify"
    /\ calls' = [calls EXCEPT ![r].classifier = @ + generateCalls(present)]
    /\ IF present
       THEN /\ response' = [response EXCEPT ![r] = Pending("classifier")]
            /\ prompt' = [prompt EXCEPT ![r] = trackingPrompt(sanitized[r])]
            /\ pc' = [pc EXCEPT ![r] = "classifyWait"]
            /\ UNCHANGED << status, failedAt >>
       ELSE /\ response' = [response EXCEPT ![r] = Absent("classifier")]
            /\ UNCHANGED prompt
            /\ Throw(r, "classify")
    /\ UNCHANGED << now, variant, rawText, payload, extracted, sanitized, record,
                    row, ticket, http >>

\* a classify step that keeps its result in one place shared by all runs
AnalyzeFeatureRequestShared(r, out) ==
    /\ pc[r] = "classifyWait"
    /\ response' = [response EXCEPT ![r] = From("classifier", out)]
    /\ LET parsed == classifyParsed(out.text, sanitized[r])
       IN  IF out.kind # "text" \/ parsed.kind = "null"
           THEN Throw(r, "classify") /\ UNCHANGED record
           ELSE /\ record' = [q \in Runs |-> classifyResult(parsed, sanitized[r])]
                /\ pc' = [pc EXCEPT ![r] = "project"]
                /\ UNCHANGED << status, failedAt >>
    /\ UNCHANGED << now, variant, rawText, payload, extracted, sanitized, prompt,
                    row, ticket, http, calls >>

\* The rest of step 2, after the await: the response is parsed, or the
\* fallback record built
AnalyzeFeatureRequest(r, out) ==
    /\ pc[r] = "classifyWait"
    /\ response' = [response EXCEPT ![r] = From("classifier", out)]
    /\ LET parsed == classifyParsed(out.text, sanitized[r])
       IN  IF out.kind # "text" \/ parsed.kind = "null"
           THEN Throw(r, "classify") /\ UNCHANGED record
           ELSE /\ record' = [record EXCEPT ![r] = classifyResult(parsed, sanitized[r])]
                /\ pc' = [pc EXCEPT ![r] = "project"]
                /\ UNCHANGED << status, failedAt >>
    /\ UNCHANGED << now, variant, rawText, payload, extracted, sanitized, prompt,
                    row, ticket, http, calls >>

\* Step 3, prepareGoogleSheetsRow; the workflow's run then ends "success"
PrepareGoogleSheetsRow(r) ==
    /\ pc[r] = "project"
    /\ row' = [row EXCEPT ![r] = prepareGoogleSheetsRow(record[r])]
    /\ pc' = [pc EXCEPT ![r] = "done"]
    /\ status' = [status EXCEPT ![r] = "success"]
    /\ UNCHANGED << now, variant, rawText, payload, response, extracted,
                    sanitized, prompt, record, ticket, failedAt, http, calls >>

\* analyzeFeatureRequest of the raw-text ticket workflow, up to its await
AnalyzeRawTextCall(r, present) ==
    /\ pc[r] = "analyzeRaw"
    /\ calls' = [calls EXCEPT ![r].ticket = @ + generateCalls(present)]
    /\ IF present
       THEN /\ response' = [response EXCEPT ![r] = Pending("ticket")]
            /\ prompt' = [prompt EXCEPT ![r] = << rawText[r] >>]
            /\ pc' = [pc EXCEPT ![r] = "analyzeRawWait"]
            /\ UNCHANGED << status, failedAt >>
       ELSE /\ response' = [response EXCEPT ![r] = Absent("ticket")]
            /\ UNCHANGED prompt
            /\ Throw(r, "analyze")
    /\ UNCHANGED << now, variant, rawText, payload, extracted, sanitized, record,
                    row, ticket, http >>

\* the rest of it, after the await
AnalyzeRawText(r, out) ==
    /\ pc[r] = "analyzeRawWait"
    /\ response' = [response EXCEPT ![r] = From("ticket", out)]
    /\ LET parsed == parseAgentResponse(out.text)
       IN  IF out.kind # "text" \/ ~parsed.ok \/ parsed.kind = "null"
           THEN Throw(r, "analyze") /\ UNCHANGED ticket
           ELSE /\ ticket' = [ticket EXCEPT ![r] = rawTicket(parsed, rawText[r])]
                /\ pc' = [pc EXCEPT ![r] = "done"]
                /\ status' = [status EXCEPT ![r] = "success"]
                /\ UNCHANGED failedAt
    /\ UNCHANGED << now, variant, rawText, payload, extracted, sanitized, prompt,
                    record, row, http, calls >>

\* The handler of POST /typeform-webhook is called with a request whose
\* body is `body`, and awaits c.req.json().
TypeformWebhookReceive(r, body) ==
    /\ pc[r] = "idle"
    /\ variant' = [variant EXCEPT ![r] = "webhook"]
    /\ payload' = [payload EXCEPT ![r] = body]
    /\ pc' = [pc EXCEPT ![r] = "readBody"]
    /\ UNCHANGED << now, rawText, response, extracted, sanitized, prompt, record,
                    row, ticket, status, failedAt, http, calls >>

\* The handler from the settling of c.req.json() to its await of
\* workflow.createRunAsync().  A body that is not JSON rejects c.req.json()
\* and a body of null throws at body.event_id: both are answered by the
\* catch block.  Any other JSON value that is not an object has no
\* event_type.  present: mastra.getWorkflow returns the workflow.
TypeformWebhook(r, present) ==
    /\ pc[r] = "readBody"
    /\ LET body == payload[r]
           data == parseTypeformPayload(body.answers)
           reply ==
             IF body.kind \in {"notjson", "null"}
             THEN Reply(500, FALSE, "Internal server error", "")
             ELSE IF body.event_type # "form_response"
             THEN Reply(200, TRUE, "", "Event type ignored")
             ELSE IF ~body.valid
             THEN Reply(400, FALSE, "Invalid webhook payload", "")
             ELSE IF ~Truthy(data.featureDescription)
             THEN Reply(400, FALSE, "Missing feature description", "")
             ELSE IF ~present
             THEN Reply(500, FALSE, "Workflow not found", "")
             ELSE NoHttp
       IN  /\ extracted' = [extracted EXCEPT ![r] =
                    IF /\ body.kind = "object"
                       /\ body.event_type = "form_response"
                       /\ body.valid
                    THEN data ELSE @]
           /\ http' = [http EXCEPT ![r] = reply]
           /\ pc' = [pc EXCEPT ![r] = IF reply # NoHttp THEN "done" ELSE "createRun"]
    /\ UNCHANGED << now, variant, rawText, payload, response, sanitized, prompt,
                    record, row, ticket, status, failedAt, calls >>

\* The handler after createRunAsync has settled: run.start is called with
\* the extracted fields and awaited.  rejects: createRunAsync or the call
\* of run.start rejects, which the catch block answers.
TypeformWebhookStart(r, rejects) ==
    /\ pc[r] = "createRun"
    /\ http' = [http EXCEPT ![r] =
                  IF rejects THEN Reply(500, FALSE, "Internal server error", "")
                  ELSE @]
    /\ pc' = [pc EXCEPT ![r] = IF rejects THEN "done" ELSE "analyze"]
    /\ UNCHANGED << now, variant, rawText, payload, response, extracted, sanitized,
                    prompt, record, row, ticket, status, failedAt, calls >>

\* analyzeFeatureRequest of the strict ticket workflow, which the route
\* runs, up to its await
AnalyzeStrictCall(r, present) ==
    /\ pc[r] = "analyze"
    /\ calls' = [calls EXCEPT ![r].ticket = @ + generateCalls(present)]
    /\ IF present
       THEN /\ response' = [response EXCEPT ![r] = Pending("ticket")]
            /\ prompt' = [prompt EXCEPT ![r] = strictPrompt(extracted[r])]
            /\ pc' = [pc EXCEPT ![r] = "analyzeWait"]
            /\ UNCHANGED << status, failedAt >>
       ELSE /\ response' = [response EXCEPT ![r] = Absent("ticket")]
            /\ UNCHANGED prompt
            /\ Throw(r, "analyze")
    /\ UNCHANGED << now, variant, rawText, payload, extracted, sanitized, record,
                    row, ticket, http >>

\* the rest of it, after the await
AnalyzeStrict(r, out) ==
    /\ pc[r] = "analyzeWait"
    /\ response' = [response EXCEPT ![r] = From("ticket", out)]
    /\ LET parsed == parseAgentResponse(out.text)
       IN  IF out.kind # "text" \/ ~parsed.ok \/ ~jiraStoryOutputSchema(parsed)
           THEN Throw(r, "analyze") /\ UNCHANGED ticket
           ELSE /\ ticket' = [ticket EXCEPT ![r] = strictTicket(parsed)]
                /\ pc' = [pc EXCEPT ![r] = "respond"]
                /\ status' = [status EXCEPT ![r] = "success"]
                /\ UNCHANGED failedAt
    /\ UNCHANGED << now, variant, rawText, payload, extracted, sanitized, prompt,
                    record, row, http, calls >>

\* the response for a run that ended with result.status = st
resultReply(st) ==
    IF st = "success" THEN Reply(200, TRUE, "", "Feature request processed")
    ELSE IF st = "failed" THEN Reply(500, FALSE, "Workflow execution failed", "")
    ELSE Reply(200, TRUE, "", "Workflow suspended")

\* The rest of the handler: the response for the run's result
WebhookRespond(r) ==
    /\ pc[r] = "respond"
    /\ http' = [http EXCEPT ![r] = resultReply(status[r])]
    /\ pc' = [pc EXCEPT ![r] = "done"]
    /\ UNCHANGED << now, variant, rawText, payload, response, extracted,
                    sanitized, prompt, record, row, ticket, status, failedAt, calls >>

\* One execution of the PII sanitizer tool on a context it accepts
RunSanitizerTool(r, context, d1, d2, bytes4, bytes2) ==
    /\ pc[r] = "idle"
    /\ now + d1 + d2 <= MaxClock
    /\ now' = now + d1 + d2
    /\ variant' = [variant EXCEPT ![r] = "tool"]
    /\ extracted' = [extracted EXCEPT ![r] = context]
    /\ sanitized' = [sanitized EXCEPT ![r] =
            piiSanitizerTool(context, now + d1, now + d1 + d2, bytes4, bytes2)]
    /\ pc' = [pc EXCEPT ![r] = "done"]
    /\ status' = [status EXCEPT ![r] = "success"]
    /\ UNCHANGED << rawText, payload, response, prompt, record, row, ticket,
                    failedAt, http, calls >>

(***************************************************************************)
(* Inputs: what the form, the agents, the clock and the random source can  *)
(* deliver                                                                 *)
(***************************************************************************)
TxtGroup == <<"G","r","o","u","p">>

TxtPhone == <<"C","a","l","l"," ","5","5","5","-","1","2","3","-","4","5","6","7">>

TxtMail == <<"a","s","k"," ","j","@","c","o",".","c","o","m">>

TxtServices == <<"H","a","i","r",","," ","N","a","i","l","s">>

RawTexts == { TxtGroup, TxtGroup \o <<" ">> \o TxtPhone \o <<" ">> \o EmailJaneLower }

\* how a call of agent.generate settles
GenerateThrows == [kind |-> "throws", text |-> <<>>]

Responds(segs) == [kind |-> "text", text |-> segs]

\* the layouts a response can wrap an object in
Layouts(o, o2) ==
    { << SObj(o) >>,
      << SSpace, SObj(o), SSpace >>,
      << SProse, SObj(o), SProse >>,
      << SMark("["), SObj(o), SMark("]") >>,
      << SMark("["), SObj(o), SMark(","), SObj(o2), SMark("]") >>,
      << SObj(o), SProse, SObj(o2) >>,
      << SProse >>,
      << >>,
      << SLit(JNull) >>,
      << SLit(JNum(<<"7">>)) >>,
      << SMark("["), SLit(JNum(<<"7">>)), SMark("]") >>,
      << SMark("{"), SMark("}") >>,
      << SMark("}"), SProse, SMark("{") >>,
      << SMark("{"), SProse, SMark("}") >> }

\* the parser agent's objects
ParserDescriptions ==
    { JUndef, JNull, JStr(<<>>), JStr(TxtGroup), JStr(TxtPhone), JStr(TxtMail),
      JNum(<<"7">>) }

ParserEmails == { JNull, JStr(EmailJane), JStr(EmailJaneLower), JStr(EmailBob) }

ParserContexts ==
    { [usageFrequency |-> JNull, serviceTypes |-> JNull, userInterests |-> JNull],
      [usageFrequency |-> JStr(<<"Once a week">>), serviceTypes |-> JStr(TxtServices),
       userInterests |-> JStr(<<"Payments">>)],
      [usageFrequency |-> JStr(<<"Daily">>), serviceTypes |-> JStr(TxtMail),
       userInterests |-> JStr(TxtPhone)],
      [usageFrequency |-> JNull,
       serviceTypes |-> JArr(<< JStr(<<"Hair">>), JStr(<<"Nails">>) >>),
       userInterests |-> JNull],
      [usageFrequency |-> JNull, serviceTypes |-> JStr(<<>>), userInterests |-> JNull],
      [usageFrequency |-> JNull,
       serviceTypes |-> JStr(<<"H","a","i","r",","," ",",","N","a","i","l","s",",">>),
       userInterests |-> JNull] }

ParserObject(d, e, c) ==
    Obj([featureDescription |-> d, usageFrequency |-> c.usageFrequency,
         serviceTypes |-> c.serviceTypes, userInterests |-> c.userInterests,
         contactEmail |-> e])

BaseContext ==
    [usageFrequency |-> JStr(<<"Once a week">>), serviceTypes |-> JStr(TxtServices),
     userInterests |-> JStr(<<"Payments">>)]

\* objects that differ from one submission in the description, the email or
\* the other answers
ParserObjects ==
    { ParserObject(d, JStr(EmailJane), BaseContext) : d \in ParserDescriptions }
    \cup { ParserObject(JStr(TxtPhone), e, BaseContext) : e \in ParserEmails }
    \cup { ParserObject(JStr(TxtMail), JNull, c) : c \in ParserContexts }

ParserBase ==
    Obj([featureDescription |-> JStr(TxtGroup), contactEmail |-> JStr(EmailBob)])

ParserOutcomes ==
    { GenerateThrows }
    \cup { Responds(<< SObj(o) >>) : o \in ParserObjects }
    \cup { Responds(l) : l \in Layouts(ParserBase, NoFields) }

\* the feature-request agent's objects: a complete one, and the ones that
\* differ from it in one key
ClassifierBase ==
    [feature_name |-> JStr(<<"Group Offering">>),
     description |-> JStr(<<"Summary">>),
     domain |-> JStr(<<"Payments">>),
     niche |-> JArr(<< JStr(<<"Hair Salon">>), JStr(<<"Nail Technician">>) >>),
     keywords |-> JArr(<< JStr(<<"Booking">>), JStr(<<"Party">>) >>),
     frequency |-> JStr(<<"Never">>),
     user_id |-> JStr(<<"user_00000000">>),
     timestamp |-> JStr(<<"1970-01-01T00:00:00.000Z">>),
     request_id |-> JStr(<<"req_19700101000000_0000">>)]

ClassifierVariations ==
    [feature_name |-> { JUndef, JStr(<<>>), JNum(<<"7">>) },
     description |-> { JUndef, JNull },
     domain |-> { JUndef, JNull, JStr(<<>>), JStr(<<"Other">>), JStr(<<"Billing">>),
                  JNum(<<"7">>) },
     niche |-> { JUndef, JArr(<<>>), JStr(<<"Hair">>), JArr(<< JNum(<<"7">>) >>),
                 JArr(<< JStr(<<"H","a","i","r">>) >>),
                 JArr(<< JStr(<<" ","H","a","i","r">>), JStr(<<"N","a","i","l","s"," ">>) >>),
                 JArr(<< JStr(<<"H","a","i","r",",","N","a","i","l","s">>) >>) },
     keywords |-> { JUndef, JStr(<<"Booking">>), JArr(<< JNull >>) },
     frequency |-> { JUndef },
     user_id |-> { JUndef },
     timestamp |-> { JUndef },
     request_id |-> { JUndef }]

ClassifierObjects ==
    { Obj(ClassifierBase), NoFields }
    \cup UNION { { Obj([ClassifierBase EXCEPT ![k] = v]) :
                      v \in ClassifierVariations[k] } :
                    k \in DOMAIN ClassifierBase }

ClassifierOutcomes ==
    { GenerateThrows }
    \cup { Responds(<< SObj(o) >>) : o \in ClassifierObjects }
    \cup { Responds(l) : l \in Layouts(Obj(ClassifierBase), NoFields) }

\* the Jira agent's objects
TicketBase ==
    [summary |-> JStr(<<"Add group booking">>),
     description |-> JStr(<<"Problem and solution">>),
     acceptanceCriteria |-> JStr(<<"Given When Then">>),
     noteForQA |-> JStr(<<"Scenarios">>),
     storyPoints |-> JNum(<<"8">>),
     priority |-> JStr(<<"2">>)]

TicketVariations ==
    [summary |-> { JUndef, JStr(<<>>), JNum(<<"7">>) },
     description |-> { JUndef, JStr(<<>>) },
     acceptanceCriteria |-> { JNull },
     noteForQA |-> { JUndef },
     storyPoints |-> { JUndef, JStr(<<"8">>), JNum(<<"0">>) },
     priority |-> { JUndef, JStr(<<"9">>), JNum(<<"2">>), JStr(<<"5">>) }]

TicketObjects ==
    { Obj(TicketBase), NoFields,
      Obj([summary |-> TicketBase.summary, description |-> TicketBase.description,
           acceptanceCriteria |-> TicketBase.acceptanceCriteria,
           noteForQA |-> TicketBase.noteForQA, storyPoints |-> TicketBase.storyPoints,
           priority |-> TicketBase.priority, domain |-> JStr(<<"Payments">>)]) }
    \cup UNION { { Obj([TicketBase EXCEPT ![k] = v]) : v \in TicketVariations[k] } :
                 k \in DOMAIN TicketBase }

TicketOutcomes ==
    { GenerateThrows }
    \cup { Responds(<< SObj(o) >>) : o \in TicketObjects }
    \cup { Responds(l) : l \in Layouts(Obj(TicketBase), NoFields) }

\* the webhook's request bodies
TextAnswer(ref, id, text) == Answer(ref, id, JStr(text), JUndef, JUndef, JUndef)

EmptyAnswer(ref, id) == Answer(ref, id, JUndef, JUndef, JUndef, JUndef)

FrequencyAnswer ==
    Answer("frequency", "q2", JUndef, JUndef, JStr(<<"Once a week">>), JUndef)

ServicesAnswer ==
    Answer("what_services", "q3", JUndef, JUndef, JUndef,
           JArr(<< JStr(<<"H","a","i","r">>), JStr(<<"N","a","i","l","s">>) >>))

InterestsAnswer == TextAnswer("areas", "q4", TxtMail)

EmailAnswer == Answer("email", "q5", JUndef, JStr(EmailJane), JUndef, JUndef)

AnswerLists ==
    { << >>,
      << TextAnswer("unrelated", "q9", TxtGroup) >>,
      << TextAnswer("feature_description", "q1", TxtGroup) >>,
      << TextAnswer("feature_description", "q1", <<" ">>) >>,
      << TextAnswer("feature_description", "q1", <<>>) >>,
      << EmptyAnswer("feature_description", "q1") >>,
      << TextAnswer("", "what_feature", TxtPhone) >>,
      << TextAnswer("description", "q1", TxtPhone),
         TextAnswer("feature_description", "q7", TxtGroup) >>,
      << TextAnswer("description", "q1", TxtPhone),
         EmptyAnswer("feature_description", "q7") >>,
      << TextAnswer("feature_request", "q1", TxtGroup),
         TextAnswer("feature_request", "q7", TxtMail) >>,
      << Answer("feature_request", "q1", JUndef, JStr(EmailBob), JUndef, JUndef) >>,
      << Answer("feature_request", "q1", JStr(TxtMail), JStr(EmailBob),
                JStr(<<"Choice">>), JUndef) >>,
      << Answer("description", "q1", JUndef, JUndef, JStr(<<"Choice">>),
                JArr(<< JStr(<<"A">>), JStr(<<"B">>) >>)) >>,
      << Answer("description", "q1", JUndef, JUndef, JUndef,
                JArr(<< JStr(<<"A">>), JStr(<<"B">>) >>)) >>,
      << TextAnswer("feature_description", "q1", TxtPhone), FrequencyAnswer,
         ServicesAnswer, InterestsAnswer, EmailAnswer >>,
      << FrequencyAnswer, ServicesAnswer, EmailAnswer >>,
      << EmailAnswer, TextAnswer("what_feature", "q1", TxtMail) >>,
      << TextAnswer("feature_description", "q1", TxtGroup),
         EmptyAnswer("frequency", "q2"),
         TextAnswer("how_often", "q6", <<"Daily">>) >> }

WebhookBodies ==
    { Body("notjson", "", FALSE, <<>>),
      Body("null", "", FALSE, <<>>),
      Body("value", "", FALSE, <<>>),
      Body("object", "", FALSE, <<>>),
      Body("object", "form_ping", FALSE, <<>>),
      Body("object", "form_response", FALSE, <<>>) }
    \cup { Body("object", "form_response", TRUE, a) : a \in AnswerLists }

RandomBytes4 == { <<0, 0, 0, 0>>, <<222, 173, 190, 239>> }

RandomBytes2 == { <<0, 0>>, <<171, 205>> }

(***************************************************************************)
(* Specification: one request, of any of the three kinds                   *)
(***************************************************************************)
Init == InitRuns({"r1"})

Next ==
    \E r \in Runs :
        \/ \E text \in RawTexts, v \in {"tracking", "ticketRaw"} : StartText(r, v, text)
        \/ \E present \in BOOLEAN : ConvertTypeformCall(r, present)
        \/ \E out \in ParserOutcomes : ConvertTypeform(r, out)
        \/ \E d1, d2 \in 0..MaxClock, b4 \in RandomBytes4, b2 \in RandomBytes2 :
              SanitizePII(r, d1, d2, b4, b2)
        \/ \E present \in BOOLEAN : AnalyzeFeatureRequestCall(r, present)
        \/ \E out \in ClassifierOutcomes : AnalyzeFeatureRequest(r, out)
        \/ PrepareGoogleSheetsRow(r)
        \/ \E present \in BOOLEAN : AnalyzeRawTextCall(r, present)
        \/ \E out \in TicketOutcomes : AnalyzeRawText(r, out)
        \/ \E body \in WebhookBodies : TypeformWebhookReceive(r, body)
        \/ \E present \in BOOLEAN : TypeformWebhook(r, present)
        \/ \E rejects \in BOOLEAN : TypeformWebhookStart(r, rejects)
        \/ \E present \in BOOLEAN : AnalyzeStrictCall(r, present)
        \/ \E out \in TicketOutcomes : AnalyzeStrict(r, out)
        \/ WebhookRespond(r)

Spec == Init /\ [][Next]_vars

\* The workflow is createWorkflow(...).then(sanitizePII)
\* .then(analyzeFeatureRequest).then(prepareGoogleSheetsRow).commit(): once
\* the classify step has returned its record, the engine runs the
\* projection step, which calls nothing and cannot block.
SpecFair == Spec /\ WF_vars(\E r \in Runs : PrepareGoogleSheetsRow(r))

(***************************************************************************)
(* Specification: two requests to the tracking workflow in flight at once, *)
(* their steps interleaved, on one clock                                   *)
(***************************************************************************)
PairParserOutcomes ==
    { Responds(<< SObj(ParserObject(JStr(TxtGroup), e, BaseContext)) >>) :
        e \in ParserEmails }

PairClassifierOutcomes == { Responds(<< SObj(Obj(ClassifierBase)) >>), Responds(<< SProse >>) }

InitPair == InitRuns(Runs)

NextPair ==
    \E r \in Runs :
        \/ StartText(r, "tracking", TxtGroup)
        \/ ConvertTypeformCall(r, TRUE)
        \/ \E out \in PairParserOutcomes : ConvertTypeform(r, out)
        \/ \E d1, d2 \in 0..MaxClock, b2 \in RandomBytes2 :
              SanitizePII(r, d1, d2, <<222, 173, 190, 239>>, b2)
        \/ AnalyzeFeatureRequestCall(r, TRUE)
        \/ \E out \in PairClassifierOutcomes : AnalyzeFeatureRequest(r, out)
        \/ PrepareGoogleSheetsRow(r)

SpecPair == InitPair /\ [][NextPair]_vars

(***************************************************************************)
(* Specification: the PII sanitizer tool executed on one context           *)
(***************************************************************************)
MaxFragments == 3

Fragments == { <<"1","2","3","-">>, <<"4","5","-">>, <<"4","5","6","7">>, <<"4","5","6","7","-">>, <<"1","2","3">>, <<" ">>, <<"\r">>, <<"a","@","b",".","c","o">>, <<"x">> }

RECURSIVE Flatten(_)
Flatten(parts) == IF parts = <<>> THEN <<>> ELSE Head(parts) \o Flatten(Tail(parts))

\* every text made of at most MaxFragments fragments
FragmentTexts ==
    { Flatten(parts) : parts \in UNION { [1..n -> Fragments] : n \in 0..MaxFragments } }

CuratedTexts ==
    { <<"1","2","3","4","5","6","7","8","1","2","3","4","5","6","7","8">>,
      <<"1","2","3","4"," ","5","6","7","8"," ","1","2","3","4"," ","5","6","7","8">>,
      <<"1","2","3","4","-","5","6","7","8","-","1","2","3","4","-","5","6","7","8">>,
      <<"x"," ","1","2","3","4","-","5","6","7","8","-","1","2","3","4","-","5","6","7","8"," ","x">>,
      <<"1","2","3","4","5","6","7","8","1","2","3","4","5","6","7","8","9">>,
      <<"1","2","3","4"," ","5","6","7","8","-","1","2","3","4","5","6","7","8">>,
      <<"1","2","3","-","4","5","-","6","7","8","9">>,
      <<"1","2","3"," ","4","5"," ","6","7","8","9">>,
      <<"i","d"," ","1","2","3","-","4","5","-","6","7","8","9",".">>,
      <<"1","2","3","4","-","5","6","-","7","8","9","0">>,
      <<"0","1","2","3","-","4","5","-","6","7","8","9">>,
      <<"1","2","3","-","4","5","-","6","7","8","9","0">>,
      <<"1","2","-","1","2","3","-","4","5","-","6","7","8","9">>,
      <<"+","1"," ","(","5","5","5",")"," ","1","2","3","-","4","5","6","7">>,
      <<"(","5","5","5",")","1","2","3","-","4","5","6","7">>,
      <<"5","5","5",".","1","2","3",".","4","5","6","7">>,
      <<"5","5","5","1","2","3","4">>,
      <<"5","5","5","-","1","2","3","4","5">>,
      <<"a","t"," ","5","5","5","-","1","2","3","-","4","5","6","7"," ","o","r"," ","j","o","h","n","@","c","o",".","c","o","m">>,
      <<"j","@","c","o",".","c","o","m","5","5","5","1","2","3","4">>,
      <<"a","@","b",".","c">>,
      <<"a","@","@","b",".","c","o">>,
      <<"J",".","D","+","x","@","E","x","-","1",".","c","o",".","u","k","!">>,
      <<"a","@","b",".","c","o","@","c",".","d","e">>,
      <<"2","0","2","6","-","1","0","-","2","9"," ","1","0",":","0","0">>,
      <<"5","5","5","\r","1","2","3","4">>,
      <<"1","2","3","\r","4","5","\r","6","7","8","9">>,
      <<"5","5","5","U+00A0","1","2","3","4">>,
      <<"1","2","3","\t","4","5","\n","6","7","8","9">>,
      <<"(","5","5","5",")","U+2003","1","2","3","\f","4","5","6","7">>,
      <<>> }

ToolContexts ==
    { [featureDescription |-> JStr(x), usageFrequency |-> JUndef,
       serviceTypes |-> JUndef, userInterests |-> JUndef, contactEmail |-> JUndef] :
        x \in FragmentTexts \cup CuratedTexts }
    \cup { [featureDescription |-> JStr(TxtGroup), usageFrequency |-> JStr(<<"Daily">>),
             serviceTypes |-> JStr(x), userInterests |-> JStr(x \o <<" ">> \o x),
             contactEmail |-> JStr(EmailJane)] : x \in CuratedTexts }

InitTool == InitRuns({"r1"})

NextTool ==
    \E r \in Runs, context \in ToolContexts :
        RunSanitizerTool(r, context, 0, 0, <<222, 173, 190, 239>>, <<171, 205>>)

SpecTool == InitTool /\ [][NextTool]_vars

(***************************************************************************)
(* Properties                                                              *)
(***************************************************************************)
\* the classify step of the tracking workflow has returned a record
Classified(r) == variant[r] = "tracking" /\ pc[r] \in {"project", "done"}

\* the classifier was called and answered with text
ClassifierAnswered(r) ==
    /\ variant[r] = "tracking"
    /\ response[r].agent = "classifier"
    /\ response[r].kind = "text"

\* the sanitize step of the tracking workflow has returned its fields
Sanitized(r) == variant[r] = "tracking" /\ sanitized[r] # NoSanitized

\* C1 (as claimed): every record the classify step produces has a domain
\* that is one of the six enumerated values.
C1_DomainInEnum ==
    \A r \in Runs :
        Classified(r) =>
            /\ record[r].domain.t = "string"
            /\ record[r].domain.s \in DomainEnum

\* C2: in every record of the classify step, on the parsed and on the
\* fallback path, frequency, user_id, timestamp and request_id are the
\* values the sanitize step computed for the run, whatever the response
\* holds under those keys.
C2_PrecomputedFieldsKept ==
    \A r \in Runs :
        Classified(r) =>
            /\ record[r].frequency = sanitized[r].usageFrequency
            /\ record[r].user_id = sanitized[r].userId
            /\ record[r].timestamp = sanitized[r].timestamp
            /\ record[r].request_id = sanitized[r].requestId

\* a record made from a parsed response that echoes other values for all
\* four keys
C2_Witness ==
    \E r \in Runs :
        /\ Classified(r)
        /\ ClassifierAnswered(r)
        /\ LET parsed == parseAgentResponse(response[r].text)
           IN  /\ parsed.ok
               /\ Truthy(Prop(parsed, "request_id"))
               /\ Prop(parsed, "request_id") # sanitized[r].requestId
               /\ Prop(parsed, "user_id") # sanitized[r].userId
               /\ Prop(parsed, "timestamp") # sanitized[r].timestamp
               /\ Prop(parsed, "frequency") # sanitized[r].usageFrequency
        /\ record[r].request_id = sanitized[r].requestId

\* the response parses neither in full nor in its brace-delimited span
Unparsable(text) ==
    /\ ~JSONparse(TrimSegs(text)).ok
    /\ \/ BraceSpan(TrimSegs(text)) = <<>>
       \/ ~JSONparse(BraceSpan(TrimSegs(text))).ok

\* the pieces of a text between its commas, each trimmed
RECURSIVE CommaPieces(_, _)
CommaPieces(text, piece) ==
    IF text = <<>> THEN << JStr(Trim(piece)) >>
    ELSE IF Head(text) = "," THEN << JStr(Trim(piece)) >> \o CommaPieces(Tail(text), <<>>)
    ELSE CommaPieces(Tail(text), Append(piece, Head(text)))

\* C3: when the classifier's response parses neither in full nor in its
\* brace span, the classify step does not fail and its record has
\* feature_name "Feature Review Needed", domain "Other", the sanitized
\* description, keywords ["Review", "Unprocessed"] and as niche the
\* sanitized service types split on commas.
C3_FallbackRecord ==
    \A r \in Runs :
        ClassifierAnswered(r) /\ Unparsable(response[r].text) =>
            /\ Classified(r)
            /\ status[r] # "failed"
            /\ record[r].feature_name = JStr(<<"Feature Review Needed">>)
            /\ record[r].domain = JStr(<<"Other">>)
            /\ record[r].description = sanitized[r].sanitizedDescription
            /\ record[r].keywords = JArr(<< JStr(<<"Review">>), JStr(<<"Unprocessed">>) >>)
            /\ record[r].niche =
                  JArr(CommaPieces(sanitized[r].sanitizedServiceTypes.s, <<>>))

\* prose in answer to a submission whose services are "Hair, Nails"
C3_Witness ==
    \E r \in Runs :
        /\ ClassifierAnswered(r)
        /\ Unparsable(response[r].text)
        /\ response[r].text # <<>>
        /\ pc[r] = "project"
        /\ sanitized[r].sanitizedServiceTypes = JStr(TxtServices)
        /\ record[r].niche = JArr(<< JStr(<<"H","a","i","r">>), JStr(<<"N","a","i","l","s">>) >>)
        /\ record[r].feature_name = JStr(<<"Feature Review Needed">>)

\* C4 (as claimed): when the call to the classification capability fails
\* (no agent, or generate throws), the tracking run is not aborted and the
\* classify step still yields a record.
C4_CallFailureFallsBack ==
    \A r \in Runs :
        /\ variant[r] = "tracking"
        /\ response[r].agent = "classifier"
        /\ response[r].kind \in {"noagent", "throws"}
        => /\ status[r] # "failed"
           /\ Classified(r)
           /\ record[r] # NoRecord

\* the webhook route has read a schema-valid form_response payload
ValidSubmission(r) ==
    /\ variant[r] = "webhook"
    /\ pc[r] # "readBody"
    /\ payload[r].kind = "object"
    /\ payload[r].event_type = "form_response"
    /\ payload[r].valid

AnswerMatches(a, ref) == a.ref = ref \/ a.id = ref

\* the answers that match some accepted reference of the feature description
DescriptionAnswers(answers) ==
    { i \in 1..Len(answers) :
        \E k \in 1..Len(FIELD_MAPPING.feature_description) :
            AnswerMatches(answers[i], FIELD_MAPPING.feature_description[k]) }

\* the answer selected by reference priority: the first answer matching the
\* first accepted reference that any answer matches; 0 when none matches
SelectedDescription(answers) ==
    LET refs == FIELD_MAPPING.feature_description
        matched == { k \in 1..Len(refs) :
                       \E i \in 1..Len(answers) : AnswerMatches(answers[i], refs[k]) }
    IN  IF matched = {} THEN 0
        ELSE SetMin({ i \in 1..Len(answers) :
                        AnswerMatches(answers[i], refs[SetMin(matched)]) })

\* the value an answer yields is empty
YieldsNothing(a) ==
    /\ ~Truthy(a.text)
    /\ ~Truthy(a.email)
    /\ ~Truthy(a.choice)
    /\ (Truthy(a.choices) => JoinWith([i \in 1..Len(a.choices.l) |-> a.choices.l[i].s],
                                     <<",", " ">>) = <<>>)

\* the request ended with 400 "Missing feature description" and no workflow
\* run: no capability call, no ticket, no row
RejectedAsMissing(r) ==
    /\ pc[r] = "done"
    /\ http[r] = Reply(400, FALSE, "Missing feature description", "")
    /\ status[r] = "none"
    /\ calls[r] = NoCalls
    /\ prompt[r] = <<>>
    /\ ticket[r] = NoTicket
    /\ row[r] = NoRow

\* extraction succeeded with this feature description
ExtractedDescription(r, text) ==
    /\ http[r].code # 400
    /\ extracted[r].featureDescription = text

\* C5 (as claimed): a payload with no answer matching the feature
\* description, or whose matched answer yields nothing, is rejected without
\* a workflow run; a payload holding a matching answer with text is
\* extracted with that answer's text as featureDescription.
C5_AnyMatchingAnswer ==
    \A r \in Runs :
        ValidSubmission(r) =>
            LET answers == payload[r].answers
                sel == SelectedDescription(answers)
            IN  /\ (sel = 0 \/ (sel # 0 /\ YieldsNothing(answers[sel])))
                        => RejectedAsMissing(r)
                /\ \A i \in DescriptionAnswers(answers) :
                        Truthy(answers[i].text)
                            => ExtractedDescription(r, answers[i].text)

\* C5 (amended): a payload with no answer matching the feature description,
\* or whose answer selected by reference priority yields nothing, is
\* rejected without a workflow run; when the selected answer carries text,
\* extraction succeeds with exactly that text as featureDescription.
C5_SelectedAnswer ==
    \A r \in Runs :
        ValidSubmission(r) =>
            LET answers == payload[r].answers
                sel == SelectedDescription(answers)
            IN  /\ (sel = 0 \/ (sel # 0 /\ YieldsNothing(answers[sel])))
                        => RejectedAsMissing(r)
                /\ (sel # 0 /\ Truthy(answers[sel].text))
                        => ExtractedDescription(r, answers[sel].text)

\* two answers match, the selected one is second in the list, and the
\* workflow was started with its text
C5_Witness ==
    \E r \in Runs :
        /\ ValidSubmission(r)
        /\ Cardinality(DescriptionAnswers(payload[r].answers)) = 2
        /\ SelectedDescription(payload[r].answers) = 2
        /\ pc[r] = "analyze"
        /\ extracted[r].featureDescription = payload[r].answers[2].text
        /\ payload[r].answers[1].text # payload[r].answers[2].text

\* C6 (as claimed): on the free-text path the fields handed to the sanitize
\* step always have a non-empty featureDescription; a response without one
\* fails the extraction.
C6_DescriptionNeverEmpty ==
    \A r \in Runs :
        variant[r] = "tracking" /\ pc[r] \in {"sanitize", "classify", "classifyWait", "project", "done"}
            => Truthy(extracted[r].featureDescription)

\* C7 (as claimed): the three text fields the tracking workflow's sanitize
\* step returns hold no email, phone, card or 3-2-4 pattern.
C7_SanitizedFieldsClean ==
    \A r \in Runs :
        Sanitized(r) =>
            /\ ~HasPII(sanitized[r].sanitizedDescription.s)
            /\ ~HasPII(sanitized[r].sanitizedServiceTypes.s)
            /\ ~HasPII(sanitized[r].sanitizedUserInterests.s)

\* C8 (as claimed): in every variant, no text placed in a prompt for the
\* classification or ticket capability holds an email address.
C8_PromptsSanitized ==
    \A r \in Runs :
        \A i \in 1..Len(prompt[r]) : ~HasEmail(prompt[r][i])

TicketKeys ==
    {"summary", "description", "acceptanceCriteria", "noteForQA", "storyPoints",
     "priority"}

\* the six keys of a ticket have the types the ticket schema asks for
TicketWellFormed(t) ==
    /\ t.summary.t = "string"
    /\ t.description.t = "string"
    /\ t.acceptanceCriteria.t = "string"
    /\ t.noteForQA.t = "string"
    /\ t.storyPoints.t = "number"
    /\ t.priority \in { JStr(<<"1">>), JStr(<<"2">>), JStr(<<"3">>), JStr(<<"4">>),
                        JStr(<<"5">>) }

\* the ticket capability answered the strict workflow with text
TicketAnswered(r) ==
    /\ variant[r] = "webhook"
    /\ response[r].agent = "ticket"
    /\ response[r].kind = "text"

\* what the response holds under the six ticket keys
AnsweredTicket(r) ==
    LET parsed == parseAgentResponse(response[r].text)
    IN  [k \in TicketKeys |-> Prop(parsed, k)]

\* the response parses to an object that satisfies the ticket schema
AnswerValid(r) ==
    LET parsed == parseAgentResponse(response[r].text)
    IN  parsed.ok /\ parsed.kind = "object" /\ TicketWellFormed(AnsweredTicket(r))

\* C9: in the strict workflow a response that does not parse, or parses to
\* something that does not satisfy the ticket schema, fails the run (HTTP
\* 500, no ticket); a ticket that is returned holds the response's own six
\* values, none defaulted.
C9_StrictNoDefaults ==
    \A r \in Runs :
        /\ (TicketAnswered(r) /\ ~AnswerValid(r)) =>
                /\ status[r] = "failed"
                /\ ticket[r] = NoTicket
                /\ (pc[r] = "done" => http[r].code = 500)
        /\ (variant[r] = "webhook" /\ (status[r] = "success" \/ ticket[r] # NoTicket)) =>
                /\ TicketAnswered(r)
                /\ TicketWellFormed(ticket[r])
                /\ ticket[r] = AnsweredTicket(r)

\* a parseable object with a key of the wrong type ended the request
\* with 500
C9_Witness ==
    \E r \in Runs :
        /\ TicketAnswered(r)
        /\ parseAgentResponse(response[r].text).kind = "object"
        /\ ~AnswerValid(r)
        /\ pc[r] = "done"
        /\ http[r].code = 500
        /\ ticket[r] = NoTicket

\* the sanitize step computed a userId from a contact email
HashedUser(r) == Sanitized(r) /\ Truthy(extracted[r].contactEmail)

\* C10: two submissions whose contact emails are equal after lower-casing
\* and trimming get the same userId, whatever the clock and the random
\* source gave each run, and that userId is user_ followed by 8 hex
\* characters.
C10_UserIdDeterministic ==
    /\ \A r \in Runs :
          HashedUser(r) =>
              LET id == sanitized[r].userId.s
              IN  /\ Len(id) = 13
                  /\ SubSeq(id, 1, 5) = <<"u","s","e","r","_">>
                  /\ \A i \in 6..13 : id[i] \in HexSet
    /\ \A r1, r2 \in Runs :
          /\ HashedUser(r1)
          /\ HashedUser(r2)
          /\ Trim(ToLowerCase(extracted[r1].contactEmail.s))
                = Trim(ToLowerCase(extracted[r2].contactEmail.s))
          => sanitized[r1].userId = sanitized[r2].userId

\* two runs, emails that differ in case and trailing space, sanitized at
\* different clock readings, same userId
C10_Witness ==
    /\ HashedUser("r1")
    /\ HashedUser("r2")
    /\ extracted["r1"].contactEmail # extracted["r2"].contactEmail
    /\ Trim(ToLowerCase(extracted["r1"].contactEmail.s))
          = Trim(ToLowerCase(extracted["r2"].contactEmail.s))
    /\ sanitized["r1"].timestamp # sanitized["r2"].timestamp
    /\ sanitized["r1"].userId = sanitized["r2"].userId

\* the 14-digit component of a request id
RequestStamp(id) == SubSeq(id, 5, 18)

\* a <= b for two digit strings of one length
StampLeq(a, b) ==
    \/ a = b
    \/ LET k == SetMin({ i \in 1..Len(a) : a[i] # b[i] })
       IN  (CHOOSE i \in 1..10 : DigitChars[i] = a[k])
              < (CHOOSE i \in 1..10 : DigitChars[i] = b[k])

\* req_ + 14 decimal digits + _ + 4 lowercase hex characters
RequestIdWellFormed(id) ==
    /\ Len(id) = 23
    /\ SubSeq(id, 1, 4) = <<"r","e","q","_">>
    /\ \A i \in 5..18 : id[i] \in DigitSet
    /\ id[19] = "_"
    /\ \A i \in 20..23 : id[i] \in HexSet

\* C11: every request id is req_, the 14 digits YYYYMMDDHHmmss of the
\* clock's reading, _, 4 lowercase hex characters; and a request id
\* generated later in the process never has a smaller 14-digit component
\* than one generated before it.
C11_RequestIdFormatAndOrder ==
    /\ [](\A r \in Runs :
            Sanitized(r) =>
                /\ RequestIdWellFormed(sanitized[r].requestId.s)
                /\ StampLeq(SelectSeq(SubSeq(sanitized[r].timestamp.s, 1, 19), IsDigit),
                            RequestStamp(sanitized[r].requestId.s)))
    /\ [][\A r, q \in Runs :
            (~Sanitized(r) /\ Sanitized(r)' /\ Sanitized(q))
                => StampLeq(RequestStamp(sanitized[q].requestId.s),
                            RequestStamp(sanitized'[r].requestId.s))]_vars

\* two request ids of one process on either side of the hour: 09:59:59
\* and then 10:00:00
C11_Witness ==
    /\ Sanitized("r1")
    /\ Sanitized("r2")
    /\ RequestStamp(sanitized["r1"].requestId.s)
          = <<"2","0","2","6","1","0","2","9","0","9","5","9","5","9">>
    /\ RequestStamp(sanitized["r2"].requestId.s)
          = <<"2","0","2","6","1","0","2","9","1","0","0","0","0","0">>
    /\ sanitized["r2"].requestId.s[20] \in {"a", "b", "c", "d", "e", "f"}

\* the PII sanitizer tool has returned for run r
ToolDone(r) == variant[r] = "tool" /\ pc[r] = "done"

\* the text holds the tag
HasTag(text, tag) == \E i \in 1..Len(text) : text[i] = tag

\* the text has a substring of one of the four shapes: an email address, a
\* phone number, sixteen digits in four blocks, or digits grouped 3-2-4
HasShape(text) ==
    \/ HasEmail(text)
    \/ Matches(text, PhonePattern, FALSE)
    \/ Matches(text, CardPattern, FALSE)
    \/ Matches(text, SsnPattern, FALSE)

\* C12 (as claimed): for every input the sanitizer returns, and no
\* substring of its output matches the email, phone, card or 3-2-4
\* pattern.
C12_ToolOutputClean ==
    \A r \in Runs :
        variant[r] = "tool" =>
            /\ ToolDone(r)
            /\ status[r] = "success"
            /\ ~HasShape(sanitized[r].sanitizedDescription.s)
            /\ ~HasShape(sanitized[r].sanitizedServiceTypes.s)
            /\ ~HasShape(sanitized[r].sanitizedUserInterests.s)

\* C13 (as claimed): a text holding a 16-digit group written as four
\* 4-digit blocks comes out of the sanitizer with the tag
\* [PAYMENT_INFO_REDACTED] in its place.
C13_CardTagged ==
    \A r \in Runs :
        ToolDone(r) /\ HasCard(extracted[r].featureDescription.s)
            => HasTag(sanitized[r].sanitizedDescription.s, "[PAYMENT_INFO_REDACTED]")

\* the tracking run has ended with its row
Projected(r) == variant[r] = "tracking" /\ pc[r] = "done"

\* a list of strings none of which holds a comma
CommaFree(v) ==
    /\ v.t = "array"
    /\ \A i \in 1..Len(v.l) :
          /\ v.l[i].t = "string"
          /\ \A j \in 1..Len(v.l[i].s) : v.l[i].s[j] # ","

\* a comma-free list that is not empty and whose strings have no white
\* space at either end
Recoverable(v) ==
    /\ CommaFree(v)
    /\ v.l # <<>>
    /\ \A i \in 1..Len(v.l) : Trim(v.l[i].s) = v.l[i].s

\* C14 (as claimed): for a record whose niche and keywords hold no comma,
\* splitting the row's niche and keywords on commas (white space around
\* the pieces dropped) gives back the record's lists.
C14_RoundTripAnyList ==
    \A r \in Runs :
        Projected(r) =>
            /\ CommaFree(record[r].niche)
                  => CommaPieces(row[r].niche.s, <<>>) = record[r].niche.l
            /\ CommaFree(record[r].keywords)
                  => CommaPieces(row[r].keywords.s, <<>>) = record[r].keywords.l

\* C14 (amended): for a list of the record (niche or keywords) that is not
\* empty and whose elements are strings with no comma and no white space
\* at either end, splitting the row's string on commas and trimming each
\* piece gives back the list.
C14_RoundTrip ==
    \A r \in Runs :
        Projected(r) =>
            /\ Recoverable(record[r].niche)
                  => CommaPieces(row[r].niche.s, <<>>) = record[r].niche.l
            /\ Recoverable(record[r].keywords)
                  => CommaPieces(row[r].keywords.s, <<>>) = record[r].keywords.l

\* a row whose niche and keywords each joined two elements, both read back
C14_Witness ==
    \E r \in Runs :
        /\ Projected(r)
        /\ Recoverable(record[r].niche)
        /\ Recoverable(record[r].keywords)
        /\ Len(record[r].niche.l) = 2
        /\ Len(record[r].keywords.l) = 2
        /\ HasTag(row[r].niche.s, ",")
        /\ CommaPieces(row[r].niche.s, <<>>) = record[r].niche.l
        /\ CommaPieces(row[r].keywords.s, <<>>) = record[r].keywords.l

\* the classify step answered with its fallback record
FellBack(r) ==
    /\ ClassifierAnswered(r)
    /\ Unparsable(response[r].text)
    /\ pc[r] = "project"

\* the run ended as a success with the one row of the fallback record
FallbackRowDone(r) ==
    /\ pc[r] = "done"
    /\ status[r] = "success"
    /\ failedAt[r] = "none"
    /\ row[r].success = TRUE
    /\ row[r] = prepareGoogleSheetsRow(record[r])
    /\ row[r].feature_name = JStr(<<"Feature Review Needed">>)
    /\ row[r].domain = JStr(<<"Other">>)
    /\ row[r].keywords = JStr(<<"Review", ",", " ", "Unprocessed">>)
    /\ row[r].request_id = sanitized[r].requestId
    /\ row[r].user_id = sanitized[r].userId

\* C15: a run whose classify step took the fallback goes on to the
\* projection step and ends as an ordinary success: its row is produced
\* with success = true, and only the record's content (the fallback
\* values) tells it from a classified run.
C15_FallbackEndsInSuccess ==
    \A r \in Runs : FellBack(r) ~> FallbackRowDone(r)

\* a run that fell back and has ended with its row
C15_Witness ==
    \E r \in Runs :
        /\ ClassifierAnswered(r)
        /\ Unparsable(response[r].text)
        /\ FallbackRowDone(r)

\* the objects written in a response
ObjectsIn(text) == { text[i].o : i \in { j \in 1..Len(text) : text[j].k = "object" } }

\* the classify step produced a record from a response that parses and
\* holds the one object o
AnsweredObject(r, o) ==
    /\ ClassifierAnswered(r)
    /\ Classified(r)
    /\ ~Unparsable(response[r].text)
    /\ ObjectsIn(response[r].text) = {o}

\* C16: for a parseable classifier response, a domain that is omitted, null
\* or the empty string gives the record the domain "Other", and a domain
\* that is one of the six enumerated values is the record's domain
\* unchanged.
C16_DomainDefaultedOrKept ==
    \A r \in Runs : \A o \in ObjectsIn(response[r].text) :
        AnsweredObject(r, o) =>
            /\ o.domain \in {JUndef, JNull, JStr(<<>>)}
                  => record[r].domain = JStr(<<"Other">>)
            /\ (o.domain.t = "string" /\ o.domain.s \in DomainEnum)
                  => record[r].domain = o.domain

\* a response inside prose whose domain "Payments" is the record's domain
C16_Witness ==
    \E r \in Runs : \E o \in ObjectsIn(response[r].text) :
        /\ AnsweredObject(r, o)
        /\ o.domain = JStr(<<"Payments">>)
        /\ record[r].domain = JStr(<<"Payments">>)
        /\ response[r].text # << SObj(o) >>

\* C17: every record of the classify step has a niche that is a list with
\* at least one element, whether the classifier's niche was missing, not a
\* list or an empty list, or the fallback was taken.
C17_NicheNonEmpty ==
    \A r \in Runs :
        ClassifierAnswered(r) /\ Classified(r) =>
            /\ record[r].niche.t = "array"
            /\ Len(record[r].niche.l) >= 1

\* a list all of whose elements are strings
StringList(v) ==
    /\ v.t = "array"
    /\ \A i \in 1..Len(v.l) : v.l[i].t = "string"

\* C18: on a successful parse the record's niche is the parsed niche when
\* that is a list of strings and ["General"] otherwise, and its keywords
\* are the parsed keywords when they are a list of strings and []
\* otherwise; a list with an element that is not a string is not passed
\* through.
C18_ListsOfStringsOnly ==
    \A r \in Runs : \A o \in ObjectsIn(response[r].text) :
        AnsweredObject(r, o) =>
            /\ record[r].niche =
                  IF StringList(o.niche) THEN o.niche
                  ELSE JArr(<< JStr(<<"General">>) >>)
            /\ record[r].keywords =
                  IF StringList(o.keywords) THEN o.keywords ELSE JArr(<<>>)

\* the record is the one the catch block builds
IsFallbackRecord(r) ==
    /\ record[r].feature_name = JStr(<<"Feature Review Needed">>)
    /\ record[r].keywords = JArr(<< JStr(<<"Review">>), JStr(<<"Unprocessed">>) >>)

\* C19: a classifier response that is valid structured data in full, a
\* list of objects included, is parsed as it stands and does not bring the
\* fallback record.
C19_FullParseFirst ==
    \A r \in Runs :
        (/\ ClassifierAnswered(r)
         /\ Classified(r)
         /\ JSONparse(TrimSegs(response[r].text)).ok)
            => ~IsFallbackRecord(r)

\* C20: on a successful parse the record's feature_name and description
\* are strings: the parsed value when present, else "Feature Review
\* Needed" and the sanitized description.
C20_NameAndDescriptionStrings ==
    \A r \in Runs : \A o \in ObjectsIn(response[r].text) :
        AnsweredObject(r, o) =>
            /\ record[r].feature_name.t = "string"
            /\ record[r].description.t = "string"
            /\ o.feature_name.t = "undefined"
                  => record[r].feature_name = JStr(<<"Feature Review Needed">>)
            /\ o.description.t = "undefined"
                  => record[r].description = sanitized[r].sanitizedDescription

\* the labels of a multi-choice answer joined by ", "
JoinedLabels(a) ==
    JoinWith([i \in 1..Len(a.choices.l) |-> a.choices.l[i].s], <<",", " ">>)

\* C21: the value of the matched answer is its text if it has one, else
\* its email, else its single-choice label, else its multi-choice labels
\* joined by ", "; of several kinds on one answer the earlier wins.
C21_ValuePrecedence ==
    \A r \in Runs :
        (ValidSubmission(r) /\ SelectedDescription(payload[r].answers) # 0) =>
            LET a == payload[r].answers[SelectedDescription(payload[r].answers)]
                value == extracted[r].featureDescription
            IN  /\ Truthy(a.text) => value = a.text
                /\ (~Truthy(a.text) /\ Truthy(a.email)) => value = a.email
                /\ (~Truthy(a.text) /\ ~Truthy(a.email) /\ Truthy(a.choice))
                      => value = a.choice
                /\ (/\ ~Truthy(a.text) /\ ~Truthy(a.email) /\ ~Truthy(a.choice)
                    /\ Truthy(a.choices))
                      => value = JStr(JoinedLabels(a))

\* an answer carrying a text, an email and a choice was resolved to its text
C21_Witness ==
    \E r \in Runs :
        /\ ValidSubmission(r)
        /\ SelectedDescription(payload[r].answers) = 1
        /\ Truthy(payload[r].answers[1].text)
        /\ Truthy(payload[r].answers[1].email)
        /\ Truthy(payload[r].answers[1].choice)
        /\ payload[r].answers[1].text # payload[r].answers[1].email
        /\ extracted[r].featureDescription = payload[r].answers[1].text
        /\ pc[r] = "analyze"

\* the answer a list of accepted references selects: the first answer, in
\* answer order, matching the first reference that any answer matches; 0
\* when no reference is matched
SelectedFor(answers, refs) ==
    LET matched == { k \in 1..Len(refs) :
                       \E i \in 1..Len(answers) : AnswerMatches(answers[i], refs[k]) }
    IN  IF matched = {} THEN 0
        ELSE SetMin({ i \in 1..Len(answers) :
                        AnswerMatches(answers[i], refs[SetMin(matched)]) })

\* the extracted field is the value of the answer its references select,
\* and undefined when they select none
FieldFrom(answers, refs, value) ==
    IF SelectedFor(answers, refs) = 0 THEN value = JUndef
    ELSE value = JStr(getAnswerValue(answers[SelectedFor(answers, refs)]))

\* C22: each field of the structured extraction is the value of the answer
\* matching (by field ref or field id) the first of the field's accepted
\* names that any answer matches, wherever that answer sits in the list
\* and, among several answers matching that name, the first in answer
\* order; an optional field no name of which is matched is undefined.
C22_FirstMatchedReference ==
    \A r \in Runs :
        ValidSubmission(r) =>
            LET answers == payload[r].answers
            IN  /\ SelectedFor(answers, FIELD_MAPPING.feature_description) # 0
                      => FieldFrom(answers, FIELD_MAPPING.feature_description,
                                   extracted[r].featureDescription)
                /\ FieldFrom(answers, FIELD_MAPPING.usage_frequency,
                             extracted[r].usageFrequency)
                /\ FieldFrom(answers, FIELD_MAPPING.service_types,
                             extracted[r].serviceTypes)
                /\ FieldFrom(answers, FIELD_MAPPING.user_interests,
                             extracted[r].userInterests)
                /\ FieldFrom(answers, FIELD_MAPPING.contact_email,
                             extracted[r].contactEmail)

\* the description was found by its fourth name in the second answer, the
\* email by its first name in the first answer, and the unmatched optional
\* fields are undefined
C22_Witness ==
    \E r \in Runs :
        /\ ValidSubmission(r)
        /\ pc[r] = "analyze"
        /\ SelectedFor(payload[r].answers, FIELD_MAPPING.feature_description) = 2
        /\ SelectedFor(payload[r].answers, FIELD_MAPPING.contact_email) = 1
        /\ extracted[r].featureDescription = payload[r].answers[2].text
        /\ extracted[r].contactEmail = payload[r].answers[1].email
        /\ extracted[r].usageFrequency = JUndef
        /\ extracted[r].serviceTypes = JUndef

\* the step of run r has called the agent
Asked(r) == response[r].kind \in {"pending", "text", "throws"}

\* C23: no step retries: in one run the parser, the classifier and the
\* ticket agent are each called at most once, whether the response was
\* usable, unusable, or the call failed.
C23_AtMostOneCall ==
    \A r \in Runs :
        /\ calls[r].parser <= 1
        /\ calls[r].classifier <= 1
        /\ calls[r].ticket <= 1
        /\ (Asked(r) /\ response[r].agent = "parser") => calls[r].parser = 1
        /\ (Asked(r) /\ response[r].agent = "classifier") => calls[r].classifier = 1
        /\ (Asked(r) /\ response[r].agent = "ticket") => calls[r].ticket = 1

\* a classifier call that threw failed the run after its one call
C23_Witness ==
    \E r \in Runs :
        /\ response[r].agent = "classifier"
        /\ response[r].kind = "throws"
        /\ status[r] = "failed"
        /\ calls[r].classifier = 1
        /\ calls[r].parser = 1

\* the stages of the tracking run r that have completed, by their outputs
StagesDone(r) ==
    << extracted[r] # NoExtracted, sanitized[r] # NoSanitized,
       record[r] # NoRecord, row[r] # NoRow >>

\* C24: in a run of the tracking pipeline the stages extract, sanitize,
\* classify, project complete in that order, each after the one before;
\* the run either goes on to completion or fails at the extraction stage,
\* and a row exists only when all four stages completed.
C24_OrderedAndFailsOnlyAtExtraction ==
    \A r \in Runs :
        variant[r] = "tracking" =>
            /\ \A i \in 2..4 : StagesDone(r)[i] => StagesDone(r)[i - 1]
            /\ row[r] # NoRow => (pc[r] = "done" /\ status[r] = "success")
            /\ status[r] = "failed" => failedAt[r] = "extract"

\* the webhook request of run r has been answered
Answered(r) == variant[r] = "webhook" /\ pc[r] = "done"

\* the body is malformed input: it is not JSON, or not an object, or an
\* object that fails typeformWebhookSchema and is not an event of another
\* type
Malformed(body) ==
    \/ body.kind \in {"notjson", "null", "value"}
    \/ /\ body.kind = "object"
       /\ ~body.valid
       /\ body.event_type \in {"", "form_response"}

\* the request failed: its body was malformed, it had no feature
\* description, or its workflow run did not succeed
FatalFailure(r) ==
    \/ Malformed(payload[r])
    \/ /\ ValidSubmission(r)
       /\ \/ ~Truthy(extracted[r].featureDescription)
          \/ status[r] # "success"

\* C25 (as claimed): every failed request is answered with success = false;
\* malformed input (an invalid payload, a missing feature description) is
\* answered 400, a failed workflow run or an exception while running it
\* 500, and no failed request is answered as a success.
C25_FailureResponses ==
    \A r \in Runs :
        Answered(r) =>
            /\ FatalFailure(r) => (~http[r].success /\ http[r].code \in {400, 500})
            /\ Malformed(payload[r]) => http[r].code = 400
            /\ (ValidSubmission(r) /\ ~Truthy(extracted[r].featureDescription))
                  => (http[r].code = 400 /\ status[r] = "none")
            /\ (/\ ValidSubmission(r)
                /\ Truthy(extracted[r].featureDescription)
                /\ status[r] # "success")
                  => http[r].code = 500
            /\ http[r].success => ~FatalFailure(r)

\* everything run r holds
RunState(r) ==
    << pc[r], variant[r], rawText[r], payload[r], response[r], extracted[r],
       sanitized[r], prompt[r], record[r], row[r], ticket[r], status[r],
       failedAt[r], http[r], calls[r] >>

\* sanitized fields san computed from the extracted fields f alone, with
\* some reading of the clock and of the random source
SanitizedFrom(san, f) ==
    LET own == sanitizePII(f, 0, 0, <<0, 0, 0, 0>>, <<0, 0>>)
    IN  /\ san.sanitizedDescription = own.sanitizedDescription
        /\ san.sanitizedServiceTypes = own.sanitizedServiceTypes
        /\ san.sanitizedUserInterests = own.sanitizedUserInterests
        /\ san.usageFrequency = own.usageFrequency
        /\ IF Truthy(f.contactEmail)
           THEN san.userId = own.userId
           ELSE \E b4 \in RandomBytes4 : san.userId = JStr(UserPrefix \o BytesToHex(b4))
        /\ \E t1 \in 0..MaxClock : san.timestamp = JStr(toISOString(t1))
        /\ \E t2 \in 0..MaxClock, b2 \in RandomBytes2 :
              san.requestId = JStr(generateRequestId(t2, b2))

\* a step that writes run r's sanitized fields, record or row computes
\* them from r's own extracted fields, sanitized fields and classifier
\* response
OwnValuesOnly(r) ==
    /\ sanitized[r]' # sanitized[r] => SanitizedFrom(sanitized[r]', extracted[r])
    /\ record[r]' # record[r] =>
          record[r]' = classifyResult(classifyParsed(response[r]'.text, sanitized[r]),
                                      sanitized[r])
    /\ row[r]' # row[r] => row[r]' = prepareGoogleSheetsRow(record[r])

\* C26: two runs processed concurrently are independent: under every
\* interleaving of their steps each run's sanitized fields, record and row
\* are computed from that run's own submission, ids and classifier
\* response, and a step of one run changes nothing the other run holds.
C26_RunsIndependent ==
    [][\A r \in Runs :
          /\ OwnValuesOnly(r)
          /\ RunState(r)' # RunState(r) =>
                \A q \in Runs \ {r} : RunState(q)' = RunState(q)]_vars

\* two runs interleaved: one has its row, the other only its record, from
\* different submissions and different classifier responses
C26_Witness ==
    /\ Projected("r1")
    /\ Classified("r2")
    /\ pc["r2"] = "project"
    /\ extracted["r1"] # extracted["r2"]
    /\ response["r1"] # response["r2"]
    /\ record["r1"].feature_name # record["r2"].feature_name
    /\ sanitized["r1"].requestId # sanitized["r2"].requestId

\* the fields the projection copies as they are
ScalarFields ==
    {"request_id", "timestamp", "feature_name", "description", "domain",
     "frequency", "user_id"}

\* C27: the projection copies request_id, timestamp, feature_name,
\* description, domain, frequency and user_id of the record unchanged,
\* puts the joined strings in place of niche and keywords, adds success =
\* true and a message naming the request_id, and never fails: a run that
\* has its record never fails afterwards.
C27_ProjectionFrame ==
    \A r \in Runs :
        /\ Projected(r) =>
              /\ \A k \in ScalarFields : row[r][k] = record[r][k]
              /\ row[r].niche = JStr(arrayToCSV(record[r].niche))
              /\ row[r].keywords = JStr(arrayToCSV(record[r].keywords))
              /\ row[r].success = TRUE
              /\ row[r].message =
                    <<"Feature request processed successfully (">>
                        \o sanitized[r].requestId.s \o <<")">>
              /\ DOMAIN row[r] = ScalarFields \cup {"niche", "keywords", "success", "message"}
        /\ (variant[r] = "tracking" /\ record[r] # NoRecord) =>
              /\ status[r] # "failed"
              /\ pc[r] \in {"project", "done"}

\* a classified record with two niches and a description other than its
\* feature name, projected
C27_Witness ==
    \E r \in Runs :
        /\ Projected(r)
        /\ ClassifierAnswered(r)
        /\ ~Unparsable(response[r].text)
        /\ record[r].description # record[r].feature_name
        /\ row[r].description = record[r].description
        /\ Len(record[r].niche.l) = 2
        /\ row[r].niche = JStr(<<"Hair Salon", ",", " ", "Nail Technician">>)
        /\ row[r].success = TRUE

\* the references of field f select an answer that yields nothing
SelectsEmpty(answers, refs) ==
    /\ SelectedFor(answers, refs) # 0
    /\ YieldsNothing(answers[SelectedFor(answers, refs)])

\* C28: when the answer matching a field's highest-priority matched
\* reference has no text, email, choice or choices, the field is the empty
\* string and lower-priority references are not consulted: for the feature
\* description the request is rejected as missing its description even if
\* another accepted reference has a non-empty answer, and an optional
\* field is "" and not undefined.
C28_EmptyMatchStopsLookup ==
    \A r \in Runs :
        ValidSubmission(r) =>
            LET answers == payload[r].answers
            IN  /\ SelectsEmpty(answers, FIELD_MAPPING.feature_description)
                      => /\ extracted[r].featureDescription = JStr(<<>>)
                         /\ RejectedAsMissing(r)
                /\ SelectsEmpty(answers, FIELD_MAPPING.usage_frequency)
                      => extracted[r].usageFrequency = JStr(<<>>)
                /\ SelectsEmpty(answers, FIELD_MAPPING.service_types)
                      => extracted[r].serviceTypes = JStr(<<>>)
                /\ SelectsEmpty(answers, FIELD_MAPPING.user_interests)
                      => extracted[r].userInterests = JStr(<<>>)
                /\ SelectsEmpty(answers, FIELD_MAPPING.contact_email)
                      => extracted[r].contactEmail = JStr(<<>>)

\* a payload whose feature_description answer is empty and whose
\* description answer has text was rejected as missing its description
C28_Witness ==
    \E r \in Runs :
        /\ ValidSubmission(r)
        /\ SelectsEmpty(payload[r].answers, FIELD_MAPPING.feature_description)
        /\ \E i \in DescriptionAnswers(payload[r].answers) :
              Truthy(payload[r].answers[i].text)
        /\ RejectedAsMissing(r)

\* the raw-text ticket run r got a response from the ticket agent
RawAnswered(r) ==
    /\ variant[r] = "ticketRaw"
    /\ response[r].agent = "ticket"
    /\ response[r].kind = "text"

\* a priority the schema's enum accepts
EnumPriority(v) == v.t = "string" /\ v.s \in PriorityEnum

\* C29: in the raw-text ticket workflow every ticket returned has a
\* priority among "1".."5", which is "3" when the response's priority is
\* absent or not one of these strings, and a numeric storyPoints, which is
\* 5 when the response's storyPoints is not a number; an unparsable
\* response fails the run and leaves no ticket.
C29_PermissiveTicketDefaults ==
    \A r \in Runs :
        RawAnswered(r) =>
            /\ ticket[r] # NoTicket =>
                  /\ status[r] = "success"
                  /\ EnumPriority(ticket[r].priority)
                  /\ ticket[r].storyPoints.t = "number"
            /\ \A o \in ObjectsIn(response[r].text) :
                  (ObjectsIn(response[r].text) = {o} /\ ~Unparsable(response[r].text)) =>
                      /\ ticket[r].priority =
                            IF EnumPriority(o.priority) THEN o.priority ELSE JStr(<<"3">>)
                      /\ ticket[r].storyPoints =
                            IF o.storyPoints.t = "number" THEN o.storyPoints
                            ELSE JNum(<<"5">>)
            /\ Unparsable(response[r].text) =>
                  /\ status[r] = "failed"
                  /\ ticket[r] = NoTicket

\* a response with priority "9" gave a ticket with priority "3"
C29_Witness ==
    \E r \in Runs : \E o \in ObjectsIn(response[r].text) :
        /\ RawAnswered(r)
        /\ status[r] = "success"
        /\ o.priority = JStr(<<"9">>)
        /\ ticket[r].priority = JStr(<<"3">>)
        /\ ticket[r].storyPoints = o.storyPoints

\* the classify step of run r took the fallback and returned its record
FallbackRecorded(r) ==
    /\ ClassifierAnswered(r)
    /\ Unparsable(response[r].text)
    /\ Classified(r)

\* the commas of a text
Commas(text) == { i \in 1..Len(text) : text[i] = "," }

\* C30: a submission with no service types (absent or empty) is sanitized
\* to sanitizedServiceTypes "General" and its fallback record has niche
\* ["General"]; in every fallback record niche is the list of the trimmed
\* comma-separated segments of the sanitized service types, one element
\* per segment, so never empty, with "" for an empty segment.
C30_FallbackNiche ==
    \A r \in Runs :
        /\ (Sanitized(r) /\ ~Truthy(extracted[r].serviceTypes))
              => sanitized[r].sanitizedServiceTypes = JStr(<<"General">>)
        /\ FallbackRecorded(r) =>
              LET text == sanitized[r].sanitizedServiceTypes.s
                  niche == record[r].niche
              IN  /\ niche.t = "array"
                  /\ niche.l = CommaPieces(text, <<>>)
                  /\ Len(niche.l) = Cardinality(Commas(text)) + 1
                  /\ ~Truthy(extracted[r].serviceTypes)
                        => niche = JArr(<< JStr(<<"General">>) >>)

\* a submission without service types, sanitized to "General", with the
\* fallback niche ["General"]
C30_Witness ==
    \E r \in Runs :
        /\ FallbackRecorded(r)
        /\ response[r].text # <<>>
        /\ ~Truthy(extracted[r].serviceTypes)
        /\ sanitized[r].sanitizedServiceTypes = JStr(<<"General">>)
        /\ record[r].niche = JArr(<< JStr(<<"General">>) >>)

=============================================================================
